---- MODULE Spec2Model ----
(***************************************************************************)
(* OpenWeedLocator: the detection-to-actuation pipeline.                   *)
(*                                                                         *)
(*   - the lane loops of Owl.hoot in owl.py and greenonbrown.py (which     *)
(*     relays receive a spray job for a weed centre),                      *)
(*   - the main cycle of owl.py (Owl.hoot) and its stop(),                 *)
(*   - the relay controller's per-lane timers.  utils/relay_control.py is  *)
(*     not among the sources; its timers follow section 4.6 of the         *)
(*     specification.                                                      *)
(*                                                                         *)
(* Time is counted in ticks of 50 ms.  Python's float lane arithmetic is   *)
(* written with exact integer arithmetic: W / N is kept as the fraction    *)
(* W/N, int(i * (W / N)) is (i * W) \div N and  x < s + W / N  is          *)
(* x * N < s * N + W.  The two agree for every relay count below 14 (for   *)
(* 14 relays float rounding moves int(7 * (122 / 14)) from 61 to 60).      *)
(***************************************************************************)
EXTENDS Integers, Sequences, FiniteSets, TLC

VARIABLES
    cfg,                \* what __init__ read from the configuration file / CLI
    pc,                 \* where hoot is: "start", "loop", "stopping", "exited", "crashed", "hung"
    disable_detection,  \* self.disable_detection: "True", "False"; "unset" until assigned
    sample_images,      \* self.sample_images: "True", "False"; "unset" until assigned
    running,            \* relay_controller.running
    relay,              \* physical relay of each lane: TRUE = ON
    timer,              \* LaneTimer of each lane
    now,                \* wall clock, in ticks
    idle,               \* ticks passed in a row with no timer armed
    obs,                \* per lane: the jobs received since the relay last went OFF
    done,               \* per lane: the last ON pulse that ended, and how
    last,               \* what the cycle of hoot that just ran did
    detIn,              \* detector harness: the inputs of the last detector call
    detOut,             \* detector harness: what that call returned
    gog,                \* detector harness: the attributes of the GreenOnGreen object
    loopIn,             \* lane-loop harness: the inputs of one run of a lane loop
    loopOut,            \* lane-loop harness: the receive calls of that run
    why,                \* what made hoot call stop(): "no_frame", "esc", "interrupt", ...
    reported,           \* an error has been logged / reported
    bus,                \* Owlcambus.py / Owlcanbus.py: the command listener and its commands
    boot,               \* Owlcambus.py / Owlcanbus.py: how far __init__ has got, what it has
                        \* constructed, the error codes sent on the status channel
    job_queue,          \* the jobs handed to the scheduler and not yet scheduled
    halt                \* stop() followed statement by statement: the statements, the next one

vars == <<cfg, pc, disable_detection, sample_images, running, relay, timer, now,
          idle, obs, done, last, detIn, detOut, gog, loopIn, loopOut, why, reported, bus, boot,
          job_queue, halt>>

-----------------------------------------------------------------------------
(* Bounds of the model *)

MaxW == 12          \* frame widths 1..MaxW in the lane-loop harness
MaxN == 4           \* relay counts 1..MaxN in the lane-loop harness
MaxTime == 10       \* the clock stops at MaxTime ticks
MaxJobs == 2        \* receive calls for one lane between two OFF transitions
MaxCentres == 1     \* weed centres returned by one inference
MaxIdle == 1        \* ticks the clock runs in a row while no timer is armed
MaxCmds == 2        \* commands the listener of Owlcambus.py / Owlcanbus.py receives
MaxBusTime == 2     \* the clock stops at MaxBusTime ticks in Owlcambus.py, Owlcanbus.py and greenonbrown.py
MaxArea == 2        \* minArea 0..MaxArea, contour areas 0..MaxArea + 1
MaxContours == 2    \* contours found in one mask
MaxDets == 2        \* detections in the output tensors of one inference
MaxQueue == 2       \* job queues of 1..MaxQueue jobs
MaxSubmits == 6     \* jobs submitted to the job queue
MaxCalls == 2       \* calls of inference on one GreenOnGreen object

NoTime == 0 - 1     \* activate_at / deactivate_at of an idle timer (None)

Max(a, b) == IF a >= b THEN a ELSE b

(* a Python bool held by an attribute that may be unassigned *)
PyBool(b) == IF b THEN "True" ELSE "False"

Lanes(N) == 0 .. (N - 1)

(* range(n) as a sequence *)
range(n) == [k \in 1 .. n |-> k - 1]

-----------------------------------------------------------------------------
(* Lane mapper and activation policy of owl.py *)

(* self.yAct = int(0.01 * self.frame_height) *)
yActPercent == 1

yActOwl(H) == (yActPercent * H) \div 100

(* self.lane_coords = {i: int(i * self.lane_width) ...}, lane_width = W / N *)
lane_coords(W, N) == [i \in Lanes(N) |-> (i * W) \div N]

(* lane_start <= centre_x < lane_end, lane_end = lane_start + self.lane_width *)
OwlInLane(i, x, W, N) ==
    LET lane_start == lane_coords(W, N)[i]
    IN  /\ lane_start <= x
        /\ x * N < lane_start * N + W

(* the arguments of relay_controller.receive(relay=i, delay=delay,
   time_stamp=actuation_time, duration=actuation_duration) *)
SprayJobNoDelay(i, delay, actuation_time, actuation_duration) ==
    [relay |-> i, delay |-> 0, time_stamp |-> actuation_time,
     duration |-> actuation_duration]

SprayJobSwapped(i, delay, actuation_time, actuation_duration) ==
    [relay |-> i, delay |-> actuation_duration, time_stamp |-> actuation_time,
     duration |-> delay]

SprayJobLateOff(i, delay, actuation_time, actuation_duration) ==
    [relay |-> i, delay |-> delay, time_stamp |-> actuation_time,
     duration |-> delay + actuation_duration]

SprayJobNoDuration(i, delay, actuation_time, actuation_duration) ==
    [relay |-> i, delay |-> delay, time_stamp |-> actuation_time, duration |-> 0]

SprayJob(i, delay, actuation_time, actuation_duration) ==
    [relay |-> i, delay |-> delay, time_stamp |-> actuation_time,
     duration |-> actuation_duration]

(* for i in range(self.relay_num): if lane_start <= centre_x < lane_end: receive *)
OwlLaneLoop(centre_x, W, N, delay, actuation_time, actuation_duration) ==
    LET hit == SelectSeq(range(N), LAMBDA i : OwlInLane(i, centre_x, W, N))
    IN  [k \in 1 .. Len(hit) |->
            SprayJob(hit[k], delay, actuation_time, actuation_duration)]

(* if centre[1] > self.yAct *)
OwlAboveLineInclusive(centre, H) == centre[2] >= yActOwl(H)

OwlAboveLine(centre, H) == centre[2] > yActOwl(H)

(* for centre in weed_centres: ... : the receive calls of one cycle, in order *)
RECURSIVE OwlCentreLoop(_, _, _, _, _, _, _)
OwlCentreLoop(weed_centres, W, H, N, delay, actuation_time, actuation_duration) ==
    IF weed_centres = <<>> THEN <<>>
    ELSE (IF OwlAboveLine(Head(weed_centres), H)
          THEN OwlLaneLoop(Head(weed_centres)[1], W, N, delay, actuation_time,
                           actuation_duration)
          ELSE <<>>)
         \o OwlCentreLoop(Tail(weed_centres), W, H, N, delay, actuation_time,
                          actuation_duration)

-----------------------------------------------------------------------------
(* Lane mapper and activation policy of greenonbrown.py *)

(* self.yAct = int((0.2) * frame.shape[0]) *)
yActPercentGob == 20

yActGob(H) == (yActPercentGob * H) \div 100

(* self.laneCoords[i] = int(i * laneWidth), laneWidth = imageOut.shape[1] / nozzleNum *)
laneCoords(W, N) == [i \in Lanes(N) |-> (i * W) \div N]

(* int(self.laneCoords[i]) <= centre[0] < int(self.laneCoords[i] + laneWidth) *)
GobInLane(i, x, W, N) ==
    LET laneX == laneCoords(W, N)[i]
    IN  /\ laneX <= x
        /\ x < (laneX * N + W) \div N

(* self.controller.receive(nozzle=i, delay=delay, timeStamp=sprayTime, duration=sprayDur) *)
GobLaneLoop(centre_x, W, N, delay, sprayTime, sprayDur) ==
    LET hit == SelectSeq(range(N), LAMBDA i : GobInLane(i, centre_x, W, N))
    IN  [k \in 1 .. Len(hit) |-> SprayJob(hit[k], delay, sprayTime, sprayDur)]

GobAboveLine(centre, H) == centre[2] > yActGob(H)

RECURSIVE GobCentreLoop(_, _, _, _, _, _, _)
GobCentreLoop(weedCentres, W, H, N, delay, sprayTime, sprayDur) ==
    IF weedCentres = <<>> THEN <<>>
    ELSE (IF GobAboveLine(Head(weedCentres), H)
          THEN GobLaneLoop(Head(weedCentres)[1], W, N, delay, sprayTime, sprayDur)
          ELSE <<>>)
         \o GobCentreLoop(Tail(weedCentres), W, H, N, delay, sprayTime, sprayDur)

-----------------------------------------------------------------------------
(* The relay controller's lane timers (specification, section 4.6) *)

(* what the cycle of hoot that just ran did; cleared by the next step of the
   clock or of a timer *)
NoCycle ==
    [frame |-> "-", disabled |-> "unset", inferred |-> FALSE, threw |-> FALSE,
     centres |-> <<>>, jobs |-> <<>>, due |-> FALSE, recorded |-> "no",
     shown |-> "no", key |-> "none", raised |-> FALSE, stopped |-> FALSE]

IdleTimer == [state |-> "Idle", activate_at |-> NoTime, deactivate_at |-> NoTime]

(* Idle + SprayJob: Pending, activation at now + delay, deactivation at
   now + delay + duration.  Pending/Active + SprayJob: the activation armed is
   kept, the deactivation deadline becomes the later of the two. *)
receive(tm, job, t) ==
    IF tm.state = "Idle"
    THEN [state |-> "Pending",
          activate_at |-> t + job.delay,
          deactivate_at |-> t + job.delay + job.duration]
    ELSE [tm EXCEPT !.deactivate_at = Max(@, t + job.delay + job.duration)]

(* the receive calls of one cycle, applied in order *)
RECURSIVE receive_all(_, _, _)
receive_all(tmrs, jobs, t) ==
    IF jobs = <<>> THEN tmrs
    ELSE receive_all([tmrs EXCEPT ![Head(jobs).relay] = receive(@, Head(jobs), t)],
                     Tail(jobs), t)

(* a timer whose deadline has come and has not fired yet *)
ActivationDue(i) ==
    running /\ timer[i].state = "Pending" /\ now >= timer[i].activate_at

DeactivationDue(i) ==
    running /\ timer[i].state = "Active" /\ now >= timer[i].deactivate_at

-----------------------------------------------------------------------------
(* Observation of a lane, kept apart from the timers: the jobs the lane
   received since its relay last went OFF (first, latest, how many), the ON
   transitions since then, and the last pulse that ended. *)

NoObs == [first |-> NoTime, latest |-> NoTime, njobs |-> 0, ons |-> 0, on_at |-> NoTime]

NoPulse ==
    [first |-> NoTime, latest |-> NoTime, njobs |-> 0, ons |-> 0, on_at |-> NoTime,
     off_at |-> NoTime, by |-> "none"]

see_job(o, t) ==
    IF o.njobs = 0
    THEN [NoObs EXCEPT !.first = t, !.latest = t, !.njobs = 1]
    ELSE [o EXCEPT !.latest = t, !.njobs = @ + 1]

RECURSIVE see_jobs(_, _, _)
see_jobs(ob, jobs, t) ==
    IF jobs = <<>> THEN ob
    ELSE see_jobs([ob EXCEPT ![Head(jobs).relay] = see_job(@, t)], Tail(jobs), t)

see_on(o, t) ==
    [o EXCEPT !.ons = @ + 1, !.on_at = IF o.ons = 0 THEN t ELSE @]

see_off(o, t, by) ==
    [first |-> o.first, latest |-> o.latest, njobs |-> o.njobs, ons |-> o.ons,
     on_at |-> o.on_at, off_at |-> t, by |-> by]

-----------------------------------------------------------------------------
(* The timers fire *)

(* Timer fires activation deadline while Pending: relay ON, Active *)
FireActivate(i) ==
    /\ ActivationDue(i)
    /\ timer' = [timer EXCEPT ![i].state = "Active"]
    /\ relay' = [relay EXCEPT ![i] = TRUE]
    /\ obs' = [obs EXCEPT ![i] = see_on(@, now)]
    /\ last' = NoCycle
    /\ UNCHANGED <<cfg, boot, job_queue, halt, pc, disable_detection, sample_images, running, now, idle,
                   done, detIn, detOut, gog, loopIn, loopOut, why, reported, bus>>

(* Timer fires deactivation deadline while Active: relay OFF, Idle *)
FireDeactivate(i) ==
    /\ DeactivationDue(i)
    /\ timer' = [timer EXCEPT ![i] = IdleTimer]
    /\ relay' = [relay EXCEPT ![i] = FALSE]
    /\ done' = [done EXCEPT ![i] = see_off(obs[i], now, "timer")]
    /\ obs' = [obs EXCEPT ![i] = NoObs]
    /\ last' = NoCycle
    /\ UNCHANGED <<cfg, boot, job_queue, halt, pc, disable_detection, sample_images, running, now, idle,
                   detIn, detOut, gog, loopIn, loopOut, why, reported, bus>>

(* wall-clock time passes; an armed timer fires at its deadline, so the clock
   does not pass a deadline that is due *)
AllIdle == \A i \in DOMAIN timer : timer[i].state = "Idle"

(* a pulse that ended is remembered while a job could still overlap it *)
Recent(d, t) ==
    IF d.by # "none" /\ t <= d.latest + cfg.delay + cfg.duration THEN d ELSE NoPulse

Horizon == IF bus.prog = "none" THEN MaxTime ELSE MaxBusTime

Tick ==
    /\ pc \in {"loop", "stalled"}
    /\ now < Horizon
    /\ AllIdle => idle < MaxIdle
    /\ \A i \in DOMAIN timer : ~ActivationDue(i) /\ ~DeactivationDue(i)
    /\ now' = now + 1
    /\ idle' = IF AllIdle THEN idle + 1 ELSE 0
    /\ done' = [i \in DOMAIN done |-> Recent(done[i], now + 1)]
    /\ last' = NoCycle
    /\ UNCHANGED <<cfg, boot, job_queue, halt, pc, disable_detection, sample_images, running, relay, timer,
                   obs, detIn, detOut, gog, loopIn, loopOut, why, reported, bus>>

-----------------------------------------------------------------------------
(* owl.py: construction *)

(* System.delay and System.actuation_duration, in ticks *)
Timings == { [delay |-> 2, duration |-> 4], [delay |-> 0, duration |-> 3] }

(* the DataCollection section: sample_images, sample_method == 'whole',
   disable_detection (read only when sample_images is set) *)
DataCollection ==
    { [sample |-> FALSE, whole |-> FALSE, disable |-> FALSE] }
    \cup { [sample |-> TRUE, whole |-> w, disable |-> d] : w \in BOOLEAN, d \in BOOLEAN }

(* Controller.enable_controller, --show-display and the DataCollection section *)
Setups ==
    { [enable_controller |-> ec, show_display |-> sd, focus |-> fc, log_fps |-> lf,
       sample |-> dc.sample, whole |-> dc.whole, disable |-> dc.disable] :
      ec \in BOOLEAN, sd \in BOOLEAN, fc \in BOOLEAN, lf \in BOOLEAN,
      dc \in DataCollection }

(* the set-up the timers are followed in: the switch watcher enabled, no
   display, no focus overlay, no FPS logging, no image sampling *)
FieldSetups ==
    { u \in Setups : /\ u.enable_controller /\ ~u.show_display /\ ~u.sample
                     /\ ~u.focus /\ ~u.log_fps }

(* the main cycle is run on frames of 600 x 400 pixels with 4 relays *)
ConfigsOf(timings, setups) ==
    { [W |-> 600, H |-> 400, N |-> 4, delay |-> t.delay, duration |-> t.duration,
       enable_controller |-> u.enable_controller, show_display |-> u.show_display,
       focus |-> u.focus, log_fps |-> u.log_fps,
       sample |-> u.sample, whole |-> u.whole, disable |-> u.disable] :
      t \in timings, u \in setups }

(* the weed centres an inference may return: one in lane 2 above the
   activation line, one on the line *)
CentresOf(c) == { <<400, 390>>, <<400, yActOwl(c.H)>> }

CentreSeqs(c) ==
    UNION { [1 .. n -> CentresOf(c)] : n \in 0 .. MaxCentres }

(* Owl.__init__: _setup_data_collection assigns self.disable_detection only when
   DataCollection.sample_images is set; nothing assigns self.sample_images *)
NoBus ==
    [prog |-> "none", listener |-> "none", cmds |-> 0, msg |-> "none",
     paused |-> FALSE, flush |-> FALSE, stop_cmd |-> FALSE, frames |-> 0]

InitOwl(timings, setups) ==
    /\ cfg \in ConfigsOf(timings, setups)
    /\ pc = "start"
    /\ disable_detection = (IF cfg.sample THEN PyBool(cfg.disable) ELSE "unset")
    /\ sample_images = "unset"
    /\ running = TRUE
    /\ relay = [i \in Lanes(cfg.N) |-> FALSE]
    /\ timer = [i \in Lanes(cfg.N) |-> IdleTimer]
    /\ now = 0
    /\ idle = 0
    /\ obs = [i \in Lanes(cfg.N) |-> NoObs]
    /\ done = [i \in Lanes(cfg.N) |-> NoPulse]
    /\ last = NoCycle
    /\ why = "none"
    /\ reported = FALSE
    /\ bus = NoBus

-----------------------------------------------------------------------------
(* owl.py: stop() *)

(* self.relay_controller.relay.all_off() *)
all_off_kept(r) == r

all_off(r) == [i \in DOMAIN r |-> FALSE]

(* Stop: the scheduler tears its timers down (specification, section 4.6) *)
teardown(tmrs) == [i \in DOMAIN tmrs |-> IdleTimer]

(* how stop() ends: `if self.sample_images' reads an attribute that may never
   have been assigned, and self.indicators exists only after
   _setup_data_collection; otherwise sys.exit() *)
stop_end(si) ==
    IF si = "unset" THEN "crashed"
    ELSE IF si = "True" /\ ~cfg.sample THEN "crashed"
    ELSE "exited"

(* self.basic_controller_process.join() has no timeout: when the controller
   is enabled and the watcher process does not end, stop() never returns *)
stop_ends(si) ==
    {stop_end(si)} \cup (IF cfg.enable_controller THEN {"hung"} ELSE {})

(* stop() was called inside the `try' of the main loop (None frame, Escape):
   an exception it raises is caught by `except Exception', which logs
   [CRITICAL ERROR] and calls stop() again *)
InsideTry(w) == w \in {"no_frame", "esc"}

(* running = False; relay.all_off(); beep; cam.stop(); join; ...; sys.exit().
   hoot calls it on a None frame, on Escape, on KeyboardInterrupt and from its
   `except Exception' handler. *)
stop ==
    /\ pc = "stopping"
    /\ running' = FALSE
    /\ relay' = all_off(relay)
    /\ timer' = teardown(timer)
    /\ done' = [i \in DOMAIN done |->
                  IF relay[i] THEN see_off(obs[i], now, "stop") ELSE done[i]]
    /\ obs' = [i \in DOMAIN obs |-> IF relay[i] THEN NoObs ELSE obs[i]]
    /\ \E end \in stop_ends(sample_images) :
          /\ pc' = end
          /\ reported' = (reported \/ (end = "crashed" /\ InsideTry(why)))
    /\ UNCHANGED <<cfg, boot, job_queue, halt, disable_detection, sample_images, now, idle, last, detIn, detOut, gog, loopIn,
                   loopOut, why, bus>>

-----------------------------------------------------------------------------
(* owl.py: Owl.hoot *)

(* the flags after `if self.enable_controller:' sampled the shared values *)
sampled_dd(det) == IF cfg.enable_controller THEN PyBool(~det) ELSE disable_detection

sampled_si(samp) == IF cfg.enable_controller THEN PyBool(samp) ELSE sample_images

(* where hoot goes after the `try' that constructs the detector: on to the
   main loop, out through _handle_exceptions (log, beep, sys.exit()), or into
   stop() from `except Exception' *)
after_ctor(ctor) ==
    CASE ctor = "ok" -> "loop"
      [] ctor = "listed" -> "exited"
      [] OTHER -> "stopping"

(* hoot up to the main loop: the control flags are sampled when the controller
   is enabled, then the detector is constructed.  ctor is how the construction
   ends: "ok", an exception of the listed kinds (_handle_exceptions: beep and
   sys.exit()) or any other exception (logged, then stop()). *)
HootStart ==
    /\ pc = "start"
    /\ \E det \in BOOLEAN, samp \in BOOLEAN, ctor \in {"ok", "listed", "other"} :
        /\ disable_detection' = sampled_dd(det)
        /\ sample_images' = sampled_si(samp)
        /\ pc' = after_ctor(ctor)
        /\ why' = (IF ctor = "other" THEN "ctor" ELSE why)
        /\ reported' = (ctor # "ok")
    /\ UNCHANGED <<cfg, boot, job_queue, halt, running, relay, timer, now, idle, obs, done, last, detIn, detOut, gog, loopIn,
                   loopOut, bus>>

(* the image sampler, every sample_frequency-th frame: what add_frame is given
   as boxes and centres.  "None" when sample_method is 'whole'; the locals
   boxes and weed_centres when it is not and detection is enabled; "None"
   otherwise *)
add_frame_any_method(whole, dd) == IF whole THEN "None" ELSE "locals"

add_frame_boxes(whole, dd) ==
    IF whole THEN "None"
    ELSE IF dd = "False" THEN "locals" ELSE "None"

(* `if not self.disable_detection:' guards inference and the centre loop *)
detects(frame, dd) == frame = "frame" /\ dd = "False"

(* no lane receives more than MaxJobs jobs between two OFF transitions *)
WithinBound(ob) == \A i \in DOMAIN ob : ob[i].njobs <= MaxJobs

(* one pass of `while True'.  Inputs: the flags the switch watcher holds (det,
   samp), what cam.read() returns, the centres the detector returns, whether
   frame_count % sample_frequency == 0 (due), indicators.DRIVE_FULL and the
   key waitKey returns. *)
cycle(det, samp, frame, weed_centres, throws, due, drive_full, k) ==
    LET dd == sampled_dd(det)
        si == sampled_si(samp)
        got == frame = "frame"
        \* `if self.focus: ... frame.copy()' on a None frame
        raise234 == ~got /\ cfg.focus
        \* `if not self.disable_detection' on an unassigned attribute
        raise264 == got /\ dd = "unset"
        detect == detects(frame, dd)
        \* the detector raises: inference ends before the centre loop
        threw == detect /\ throws
        jobs == IF detect /\ ~threw
                THEN OwlCentreLoop(weed_centres, cfg.W, cfg.H, cfg.N, cfg.delay,
                                   now, cfg.duration)
                ELSE <<>>
        \* `if self.sample_images' unassigned, or self.sample_frequency
        \* unassigned because _setup_data_collection never ran
        raise308 == /\ got /\ ~raise264 /\ ~threw
                    /\ (si = "unset" \/ (si = "True" /\ ~cfg.sample))
        raised == raise234 \/ raise264 \/ threw \/ raise308
        sampling == got /\ ~raised /\ si = "True"
        \* the locals boxes and weed_centres hold what inference returned in
        \* this cycle when it ran, and what an earlier cycle left when not
        recorded == IF sampling /\ due
                    THEN (IF add_frame_boxes(cfg.whole, dd) = "None" THEN "plain"
                          ELSE IF detect /\ ~threw THEN "boxes" ELSE "stale")
                    ELSE "no"
        si2 == IF sampling /\ drive_full THEN "False" ELSE si
        shown == IF got /\ ~raised /\ cfg.show_display
                 THEN (IF dd = "True" THEN "frame" ELSE "image_out")
                 ELSE "no"
        stopping == ~got \/ raised \/ k = "esc"
        ob1 == see_jobs(obs, jobs, now)
    IN  /\ WithinBound(ob1)
        /\ disable_detection' = dd
        /\ sample_images' = si2
        /\ last' = [frame |-> frame, disabled |-> dd, inferred |-> detect,
                    threw |-> threw,
                    centres |-> IF detect /\ ~threw THEN weed_centres ELSE <<>>,
                    jobs |-> jobs, due |-> sampling /\ due, recorded |-> recorded,
                    shown |-> shown, key |-> IF got /\ ~raised THEN k ELSE "none",
                    raised |-> raised, stopped |-> stopping]
        \* `except Exception as e: log_line("[CRITICAL ERROR] STOPPED ...")'
        /\ reported' = (reported \/ raised)
        /\ why' = (IF raised THEN "error"
                   ELSE IF ~got THEN "no_frame"
                   ELSE IF k = "esc" THEN "esc" ELSE why)
        /\ timer' = receive_all(timer, jobs, now)
        /\ obs' = ob1
        /\ pc' = IF stopping THEN "stopping" ELSE "loop"
        /\ UNCHANGED <<running, relay, done>>
        /\ idle' = IF jobs = <<>> THEN idle ELSE 0
        /\ UNCHANGED <<cfg, boot, job_queue, halt, now, detIn, detOut, gog, loopIn, loopOut, bus>>

(* the values an input can take where the cycle reads it *)
Switch == IF cfg.enable_controller THEN BOOLEAN ELSE {FALSE}

Returned(frame, det) ==
    IF frame = "frame" /\ sampled_dd(det) # "unset" THEN CentreSeqs(cfg) ELSE {<<>>}

Sampler(frame, samp) ==
    IF frame = "frame" /\ sampled_si(samp) = "True" /\ cfg.sample
    THEN BOOLEAN ELSE {FALSE}

Keys(frame) == IF frame = "frame" THEN {"none", "esc"} ELSE {"none"}

Throws(frame, det, weed_centres) ==
    IF detects(frame, sampled_dd(det)) /\ weed_centres = <<>> THEN BOOLEAN ELSE {FALSE}

(* the cycle blocks (cam.read(), the inference, imshow) right after the lane
   loop has submitted its jobs, and does not come back *)
Stall ==
    /\ pc = "loop"
    /\ last.jobs # <<>>
    /\ pc' = "stalled"
    /\ UNCHANGED <<cfg, boot, job_queue, halt, disable_detection, sample_images, running, relay, timer,
                   now, idle, obs, done, last, detIn, detOut, gog, loopIn, loopOut, why,
                   reported, bus>>

Cycle ==
    /\ pc = "loop"
    /\ \E det \in Switch, samp \in Switch, frame \in {"none", "frame"} :
         \E weed_centres \in Returned(frame, det),
            due \in Sampler(frame, samp), drive_full \in Sampler(frame, samp),
            k \in Keys(frame) :
              \E throws \in Throws(frame, det, weed_centres) :
                  cycle(det, samp, frame, weed_centres, throws, due, drive_full, k)

(* Ctrl-C while the loop runs: `except KeyboardInterrupt' calls stop() *)
Interrupt ==
    /\ pc = "loop"
    /\ pc' = "stopping"
    /\ why' = "interrupt"
    /\ UNCHANGED <<cfg, boot, job_queue, halt, disable_detection, sample_images, running, relay, timer, now,
                   idle, obs, done, last, detIn, detOut, gog, loopIn, loopOut, reported, bus>>

-----------------------------------------------------------------------------
(* Owlcambus.py and Owlcanbus.py: the main loop with a command listener.
   "cam" is Owlcambus.py, whose listener is a multiprocessing.Process: it runs
   listen_for_can_commands on a copy of the Owl object, so what it assigns
   (relay_controller.running) stays in the copy, while the relays it drives
   are the same hardware.  "can" is Owlcanbus.py, whose listener is a daemon
   Thread of the main process.  Both loops elide the detection block
   ("detection logic remains unchanged"); it is taken as the block of owl.py. *)

BusProgs == {"cam", "can"}

BusTimings == { [delay |-> 1, duration |-> 1] }

(* the set-up the listener is followed in: Controller.enable_controller off,
   no display, no focus overlay, no FPS logging, DataCollection.sample_images
   off *)
BusSetups ==
    { u \in Setups : /\ ~u.enable_controller /\ ~u.show_display /\ ~u.sample
                     /\ ~u.focus /\ ~u.log_fps }

(* the commands execute_can_command tells apart *)
CAN_COMMANDS == {"pause", "play", "boom_flush", "stop", "save_config"}

(* __init__: self.disable_detection = False, _setup_image_sampling assigns
   self.sample_images from the configuration, the listener is started *)
InitBus ==
    /\ cfg \in ConfigsOf(BusTimings, BusSetups)
    /\ pc = "loop"
    /\ disable_detection = "False"
    /\ sample_images = PyBool(cfg.sample)
    /\ running = TRUE
    /\ relay = [i \in Lanes(cfg.N) |-> FALSE]
    /\ timer = [i \in Lanes(cfg.N) |-> IdleTimer]
    /\ now = 0
    /\ idle = 0
    /\ obs = [i \in Lanes(cfg.N) |-> NoObs]
    /\ done = [i \in Lanes(cfg.N) |-> NoPulse]
    /\ last = NoCycle
    /\ why = "none"
    /\ reported = FALSE
    /\ \E p \in BusProgs : bus = [NoBus EXCEPT !.prog = p, !.listener = "listening"]

(* self.relay_controller.relay.all_on() *)
all_on_kept(r) == r

all_on(r) == [i \in DOMAIN r |-> TRUE]

(* one pass of `while True' of hoot.  Inputs: the detection flag the switch
   watcher holds, what cam.read() returns, the centres the detector returns
   and the key waitKey returns; the recording switch stays off.  The loop reads
   no flag a command sets. *)
bus_cycle(det, frame, weed_centres, k) ==
    LET dd == sampled_dd(det)
        si == sampled_si(FALSE)
        got == frame = "frame"
        detect == detects(frame, dd)
        jobs == IF detect
                THEN OwlCentreLoop(weed_centres, cfg.W, cfg.H, cfg.N, cfg.delay,
                                   now, cfg.duration)
                ELSE <<>>
        stopping == ~got \/ k = "esc"
        ob1 == see_jobs(obs, jobs, now)
    IN  /\ WithinBound(ob1)
        /\ disable_detection' = dd
        /\ sample_images' = si
        /\ last' = [NoCycle EXCEPT !.frame = frame, !.disabled = dd,
                                   !.inferred = detect,
                                   !.centres = IF detect THEN weed_centres ELSE <<>>,
                                   !.jobs = jobs,
                                   !.key = IF got THEN k ELSE "none",
                                   !.stopped = stopping]
        /\ why' = (IF ~got THEN "no_frame" ELSE IF k = "esc" THEN "esc" ELSE why)
        /\ timer' = receive_all(timer, jobs, now)
        /\ obs' = ob1
        /\ idle' = IF jobs = <<>> THEN idle ELSE 0
        /\ pc' = IF stopping THEN "stopping" ELSE "loop"
        \* frame_count += 1
        /\ bus' = [bus EXCEPT !.frames = IF got THEN 1 - @ ELSE @,
                              !.flush = FALSE]
        /\ UNCHANGED <<cfg, boot, job_queue, halt, running, relay, done, now, detIn, detOut, gog, loopIn, loopOut, reported>>

(* the detector returns nothing, or one centre in lane 2 above the line *)
BusReturned(frame, det) ==
    IF detects(frame, sampled_dd(det)) THEN { <<>>, << <<400, 390>> >> } ELSE {<<>>}

BusCycle ==
    /\ pc = "loop"
    /\ bus.prog \in BusProgs
    /\ \E det \in Switch, frame \in {"none", "frame"} :
         \E weed_centres \in BusReturned(frame, det), k \in Keys(frame) :
             bus_cycle(det, frame, weed_centres, k)

(* stop() called by the main loop: running = False; relay.all_off();
   cam.stop(); the watcher joined without a timeout; the listener terminated
   (Owlcambus.py) or its socket closed (Owlcanbus.py); sys.exit() *)
bus_stop ==
    /\ pc = "stopping"
    /\ bus.prog \in BusProgs
    /\ running' = FALSE
    /\ relay' = all_off(relay)
    /\ timer' = teardown(timer)
    /\ done' = [i \in DOMAIN done |->
                  IF relay[i] THEN see_off(obs[i], now, "stop") ELSE done[i]]
    /\ obs' = [i \in DOMAIN obs |-> IF relay[i] THEN NoObs ELSE obs[i]]
    /\ \E end \in stop_ends(sample_images) :
          /\ pc' = end
          /\ bus' = [bus EXCEPT !.flush = FALSE,
                                !.listener = IF end = "exited" THEN "ended" ELSE @]
    /\ UNCHANGED <<cfg, boot, job_queue, halt, disable_detection, sample_images, now, idle, last, detIn, detOut, gog, loopIn,
                   loopOut, why, reported>>

(* the listener took one more message *)
heard(b, msg) == [b EXCEPT !.cmds = @ + 1, !.msg = msg]

(* 'pause' and 'play': a line is printed; no attribute of the program
   changes.  What the operator asked for is remembered in bus.paused. *)
on_print(cmd, msg) ==
    /\ cmd \in {"pause", "play"}
    /\ bus' = [heard(bus, msg) EXCEPT
                 !.paused = (cmd = "pause"),
                 !.flush = IF cmd = "play" THEN FALSE ELSE @]
    /\ UNCHANGED <<pc, running, relay, timer, obs, done, reported>>

(* 'save_config': self.save_parameters() is called by the listener itself,
   which is in that call until the snapshot is written *)
on_save_config(cmd, msg) ==
    /\ cmd = "save_config"
    /\ bus' = [heard(bus, msg) EXCEPT !.listener = "saving"]
    /\ UNCHANGED <<pc, running, relay, timer, obs, done, reported>>

(* a message that maps to no command: Owlcambus.py prints "Unknown CAN ID",
   the if / elif chain of Owlcanbus.py matches nothing *)
on_nothing(cmd, msg) ==
    /\ cmd = "none"
    /\ bus' = heard(bus, msg)
    /\ UNCHANGED <<pc, running, relay, timer, obs, done, reported>>

(* 'boom_flush': self.relay_controller.relay.all_on(), on the relay driver,
   past the lane timers *)
on_boom_flush(cmd, msg) ==
    /\ cmd = "boom_flush"
    /\ relay' = all_on(relay)
    /\ bus' = [heard(bus, msg) EXCEPT !.flush = TRUE]
    /\ UNCHANGED <<pc, running, timer, obs, done, reported>>

(* 'stop' in Owlcambus.py: stop() runs in the listener process.  running =
   False lands in the copy, the relays go OFF, then join() of a process that
   is not a child (or terminate() of can_command_process, whose handle the
   copy never got) raises; `except Exception' of the listener reports 0x403
   and the listener goes on.  The main process is not told. *)
on_stop_cam(cmd, msg) ==
    /\ cmd = "stop" /\ bus.prog = "cam"
    /\ relay' = all_off(relay)
    /\ done' = [i \in DOMAIN done |->
                  IF relay[i] THEN see_off(obs[i], now, "stop") ELSE done[i]]
    /\ obs' = [i \in DOMAIN obs |-> IF relay[i] THEN NoObs ELSE obs[i]]
    /\ reported' = TRUE
    /\ bus' = [heard(bus, msg) EXCEPT !.flush = FALSE, !.stop_cmd = TRUE]
    /\ UNCHANGED <<pc, running, timer>>

(* 'stop' in Owlcanbus.py: stop() runs in the listener thread on the shared
   object.  running = False, the relays go OFF, the timers are torn down; the
   thread then blocks in join() of the watcher or ends in sys.exit(), which
   ends the thread only.  The main loop is not told. *)
on_stop_can(cmd, msg) ==
    /\ cmd = "stop" /\ bus.prog = "can"
    /\ running' = FALSE
    /\ relay' = all_off(relay)
    /\ timer' = teardown(timer)
    /\ done' = [i \in DOMAIN done |->
                  IF relay[i] THEN see_off(obs[i], now, "stop") ELSE done[i]]
    /\ obs' = [i \in DOMAIN obs |-> IF relay[i] THEN NoObs ELSE obs[i]]
    /\ \E end \in stop_ends(sample_images) :
          bus' = [heard(bus, msg) EXCEPT
                    !.flush = FALSE, !.stop_cmd = TRUE,
                    !.listener = IF end = "hung" THEN "hung" ELSE "ended"]
    /\ UNCHANGED <<pc, reported>>

(* execute_can_command(command), called by the listener for the command a
   message msg read from the bus maps to *)
execute_can_command(cmd, msg) ==
    \/ on_print(cmd, msg)
    \/ on_boom_flush(cmd, msg)
    \/ on_stop_cam(cmd, msg)
    \/ on_stop_can(cmd, msg)
    \/ on_save_config(cmd, msg)
    \/ on_nothing(cmd, msg)

(* the messages the channel delivers: one per command, and one with an
   identifier that is no command *)
Messages == CAN_COMMANDS \cup {"unknown"}

(* `if can_id in CAN_COMMANDS: self.execute_can_command(CAN_COMMANDS[can_id])'
   in Owlcambus.py; in Owlcanbus.py the received text is the command *)
dispatch_else_flush(msg) == IF msg \in CAN_COMMANDS THEN msg ELSE "boom_flush"

dispatch(msg) == IF msg \in CAN_COMMANDS THEN msg ELSE "none"

(* listen_for_can_commands / listen_for_commands: one command is received
   while the main process lives *)
(* save_parameters returns: the listener is back in its receive call *)
SaveDone ==
    /\ bus.listener = "saving"
    /\ bus' = [bus EXCEPT !.listener = "listening"]
    /\ UNCHANGED <<cfg, boot, job_queue, halt, pc, disable_detection, sample_images, running, relay, timer,
                   now, idle, obs, done, last, detIn, detOut, gog, loopIn, loopOut,
                   why, reported>>

Listen ==
    /\ bus.listener = "listening"
    /\ pc \in {"loop", "stopping"}
    /\ bus.cmds < MaxCmds
    /\ \E msg \in Messages :
          execute_can_command(dispatch(msg), msg)
    /\ last' = NoCycle
    /\ UNCHANGED <<cfg, boot, job_queue, halt, disable_detection, sample_images, now, idle, detIn, detOut, gog, loopIn,
                   loopOut, why>>

-----------------------------------------------------------------------------
(* Owlcambus.py / Owlcanbus.py: __init__, step by step *)

(* the codes of ERROR_CODES *)
ERROR_CODES == {"0x401", "0x402", "0x403", "0x404"}

(* owl.py is followed as well: its __init__ has the same steps in another
   order *)
StartProgs == BusProgs \cup {"owl"}

(* made: the attributes assigned so far; missing: the attributes a step or a
   handler read before any step had assigned them *)
NoBoot ==
    [prog |-> "none", step |-> "none", made |-> {}, sent |-> {}, failed |-> "none",
     missing |-> {}]

(* no display, no focus overlay, no FPS logging; the switch watcher and the
   image sampling on or off *)
StartSetups == { u \in Setups : ~u.show_display /\ ~u.focus /\ ~u.log_fps }

(* the first lines of __init__: the configuration is read, Owlcambus.py and
   Owlcanbus.py assign self.disable_detection = False; the next step is
   _setup_controller when Controller.enable_controller is set, _setup_camera
   otherwise *)
InitStart ==
    /\ cfg \in ConfigsOf(BusTimings, StartSetups)
    /\ pc = "start"
    /\ sample_images = "unset"
    /\ running = FALSE
    /\ relay = [i \in Lanes(cfg.N) |-> FALSE]
    /\ timer = [i \in Lanes(cfg.N) |-> IdleTimer]
    /\ now = 0
    /\ idle = 0
    /\ obs = [i \in Lanes(cfg.N) |-> NoObs]
    /\ done = [i \in Lanes(cfg.N) |-> NoPulse]
    /\ last = NoCycle
    /\ why = "none"
    /\ reported = FALSE
    /\ bus = NoBus
    /\ \E p \in StartProgs :
         /\ disable_detection = (IF p = "owl" THEN "unset" ELSE "False")
         /\ boot = [NoBoot EXCEPT !.prog = p,
                                  !.step = IF cfg.enable_controller THEN "controller"
                                           ELSE "camera"]

(* report_error.  The status channel is self.zmq_publisher in Owlcambus.py,
   self.client_socket in Owlcanbus.py.  Owlcambus.py calls send_string: an
   AttributeError while the publisher does not exist.  Owlcanbus.py calls
   send_status_to_server, whose `except Exception' swallows the AttributeError
   of a missing self.client_socket; the socket is connected only by
   connect_to_server, and a send on an unconnected socket is swallowed too. *)
report_error(b, code) ==
    IF b.prog = "cam"
    THEN IF "zmq_publisher" \in b.made
         THEN [sent |-> b.sent \cup {code}, raised |-> FALSE, missing |-> {}]
         ELSE [sent |-> b.sent, raised |-> TRUE, missing |-> {"zmq_publisher"}]
    ELSE IF "connected" \in b.made
         THEN [sent |-> b.sent \cup {code}, raised |-> FALSE, missing |-> {}]
         ELSE [sent |-> b.sent, raised |-> FALSE,
               missing |-> {"client_socket"} \ b.made]

(* the attributes stop() reads, in the order it reads them *)
stop_reads(b, c, sampling) ==
    <<"relay_controller", "cam">>
    \o (IF c.enable_controller THEN <<"basic_controller">> ELSE <<>>)
    \o (IF "sample_images" \notin b.made THEN <<"sample_images">>
        ELSE IF sampling THEN <<"indicators", "image_recorder">> ELSE <<>>)
    \o (IF b.prog = "cam" THEN <<"can_command_process">> ELSE <<"client_socket">>)

(* stop() reaches sys.exit() when every attribute it reads exists *)
stop_exits(b, c, sampling) ==
    \A k \in DOMAIN stop_reads(b, c, sampling) : stop_reads(b, c, sampling)[k] \in b.made

(* the first attribute stop() reads that does not exist *)
stop_missing(b, c, sampling) ==
    LET reads == stop_reads(b, c, sampling)
        gone == { k \in DOMAIN reads : reads[k] \notin b.made }
    IN  IF gone = {} THEN {}
        ELSE { reads[CHOOSE k \in gone : \A j \in gone : k <= j] }

(* stop() gets as far as relay.all_off() *)
stop_all_off(b) == "relay_controller" \in b.made

(* the `except Exception' of a set-up step: report_error(code), then stop() *)
setup_failed(code, sampling) ==
    LET r == report_error(boot, code)
        reached == ~r.raised
        b1 == [boot EXCEPT !.sent = r.sent, !.failed = code, !.step = "failed",
                           !.missing = @ \cup r.missing
                                         \cup (IF reached
                                               THEN stop_missing(boot, cfg, sampling)
                                               ELSE {})]
    IN  /\ boot' = b1
        /\ pc' = IF reached /\ stop_exits(boot, cfg, sampling) THEN "exited" ELSE "crashed"
        /\ running' = IF reached /\ stop_all_off(boot) THEN FALSE ELSE running
        /\ relay' = IF reached /\ stop_all_off(boot) THEN all_off(relay) ELSE relay
        /\ UNCHANGED sample_images

setup_made(names, next) ==
    boot' = [boot EXCEPT !.made = @ \cup names, !.step = next]

StartFrame ==
    UNCHANGED <<cfg, job_queue, halt, disable_detection, timer, now, idle, obs, done, last, detIn,
                detOut, gog, loopIn, loopOut, why, reported, bus>>

(* _setup_controller: no exception handler *)
setup_controller ==
    /\ pc = "start"
    /\ boot.step = "controller"
    /\ setup_made({"basic_controller"}, "camera")
    /\ UNCHANGED <<pc, running, relay, sample_images>>
    /\ StartFrame

(* _setup_camera of Owlcambus.py / Owlcanbus.py *)
setup_camera ==
    /\ pc = "start"
    /\ boot.prog \in BusProgs
    /\ boot.step = "camera"
    /\ \/ /\ setup_made({"cam"}, "relays")
          /\ UNCHANGED <<pc, running, relay, sample_images>>
       \/ setup_failed("0x401", FALSE)
    /\ StartFrame

(* _setup_relays: RelayController starts with running = True *)
setup_relays ==
    /\ pc = "start"
    /\ boot.prog \in BusProgs
    /\ boot.step = "relays"
    /\ \/ /\ setup_made({"relay_controller"}, "sampling")
          /\ running' = TRUE
          /\ UNCHANGED <<pc, relay, sample_images>>
       \/ setup_failed("0x402", FALSE)
    /\ StartFrame

(* _setup_image_sampling: self.sample_images is assigned first; with sampling
   on, StatusIndicator and ImageRecorder are constructed in a `try', and a
   failure may come before or after self.indicators is assigned *)
setup_image_sampling ==
    /\ pc = "start"
    /\ boot.prog \in BusProgs
    /\ boot.step = "sampling"
    /\ \/ /\ setup_made({"sample_images"}
                        \cup (IF cfg.sample THEN {"indicators", "image_recorder"} ELSE {}),
                        "channel")
          /\ sample_images' = PyBool(cfg.sample)
          /\ UNCHANGED <<pc, running, relay>>
       \/ /\ cfg.sample
          /\ \E got \in SUBSET {"indicators"} :
               LET b0 == [boot EXCEPT !.made = @ \cup {"sample_images"} \cup got]
                   r == report_error(b0, "0x404")
                   reached == ~r.raised
               IN  /\ boot' = [b0 EXCEPT !.sent = r.sent, !.failed = "0x404",
                                         !.step = "failed",
                                         !.missing = @ \cup r.missing
                                            \cup (IF reached
                                                  THEN stop_missing(b0, cfg, TRUE)
                                                  ELSE {})]
                   /\ pc' = IF reached /\ stop_exits(b0, cfg, TRUE) THEN "exited"
                            ELSE "crashed"
                   /\ running' = IF reached THEN FALSE ELSE running
                   /\ relay' = IF reached THEN all_off(relay) ELSE relay
                   /\ sample_images' = "True"
    /\ StartFrame

(* owl.py, _setup_camera: the resolution and the thresholds are read from the
   configuration; a resolution of more than 832 x 640 pixels is replaced by
   (416, 320) and the warning is written with self.logger, which
   _setup_relay_controller assigns two steps later *)
owl_setup_camera ==
    /\ pc = "start"
    /\ boot.prog = "owl"
    /\ boot.step = "camera"
    /\ \E too_high \in BOOLEAN :
         IF too_high /\ "logger" \notin boot.made
         THEN /\ boot' = [boot EXCEPT !.failed = "resolution", !.step = "failed",
                                      !.missing = @ \cup {"logger"}]
              /\ pc' = "crashed"
         ELSE /\ setup_made({"resolution"}, "relays")
              /\ UNCHANGED pc
    /\ UNCHANGED <<running, relay, sample_images>>
    /\ StartFrame

(* owl.py, _setup_relay_controller: self.relay_controller and self.logger *)
owl_setup_relay_controller ==
    /\ pc = "start"
    /\ boot.prog = "owl"
    /\ boot.step = "relays"
    /\ setup_made({"relay_controller", "logger"}, "video")
    /\ running' = TRUE
    /\ UNCHANGED <<pc, relay, sample_images>>
    /\ StartFrame

(* owl.py, _setup_video_source: a camera that cannot be started is logged with
   self.logger, beeped with self.relay_controller, and sys.exit(1) follows *)
owl_setup_video_source ==
    /\ pc = "start"
    /\ boot.prog = "owl"
    /\ boot.step = "video"
    /\ \/ /\ setup_made({"cam"}, "sampling")
          /\ UNCHANGED pc
       \/ /\ boot' = [boot EXCEPT !.failed = "camera", !.step = "failed",
                                  !.missing = @ \cup ({"logger", "relay_controller"}
                                                      \ boot.made)]
          /\ pc' = IF {"logger", "relay_controller"} \subseteq boot.made
                   THEN "exited" ELSE "crashed"
    /\ UNCHANGED <<running, relay, sample_images>>
    /\ StartFrame

(* owl.py, _setup_data_collection when DataCollection.sample_images is set
   (self.disable_detection is assigned, self.sample_images is not), then
   _setup_lane_coordinates; hoot is called next *)
owl_setup_data_collection ==
    /\ pc = "start"
    /\ boot.prog = "owl"
    /\ boot.step = "sampling"
    /\ setup_made((IF cfg.sample
                   THEN {"disable_detection", "indicators", "image_recorder"} ELSE {})
                  \cup {"lane_coords"}, "done")
    /\ disable_detection' = (IF cfg.sample THEN PyBool(cfg.disable) ELSE disable_detection)
    /\ UNCHANGED <<cfg, job_queue, halt, pc, running, relay, sample_images, timer, now,
                   idle, obs, done, last, detIn, detOut, gog, loopIn, loopOut, why,
                   reported, bus>>

(* Owlcambus.py, _setup_can_bus: the subscriber, the publisher and the
   listener process are created; hoot is entered next *)
setup_can_bus ==
    /\ pc = "start"
    /\ boot.prog = "cam"
    /\ boot.step = "channel"
    /\ setup_made({"zmq_subscriber", "zmq_publisher", "can_command_process"}, "done")
    /\ pc' = "loop"
    /\ UNCHANGED <<running, relay, sample_images>>
    /\ StartFrame

(* Owlcanbus.py: self.client_socket is created, then connect_to_server; a
   failed connection prints and calls sys.exit(1) *)
connect_to_server ==
    /\ pc = "start"
    /\ boot.prog = "can"
    /\ boot.step = "channel"
    /\ \/ /\ setup_made({"client_socket", "connected", "listener"}, "done")
          /\ pc' = "loop"
       \/ /\ boot' = [boot EXCEPT !.made = @ \cup {"client_socket"},
                                  !.failed = "connection", !.step = "failed"]
          /\ pc' = "exited"
    /\ UNCHANGED <<running, relay, sample_images>>
    /\ StartFrame

-----------------------------------------------------------------------------
(* greenonbrown.py: Owl.hoot and Owl.stop, with the lane timers *)

GobTimings == { [delay |-> 1, duration |-> 1] }

(* no display window, no recording *)
GobSetups ==
    { u \in Setups : /\ ~u.enable_controller /\ ~u.show_display /\ ~u.sample
                     /\ ~u.focus /\ ~u.log_fps }

(* Owl.__init__ of greenonbrown.py: camera and Controller constructed *)
InitGob ==
    /\ cfg \in ConfigsOf(GobTimings, GobSetups)
    /\ pc = "loop"
    /\ disable_detection = "False"
    /\ sample_images = "False"
    /\ running = TRUE
    /\ relay = [i \in Lanes(cfg.N) |-> FALSE]
    /\ timer = [i \in Lanes(cfg.N) |-> IdleTimer]
    /\ now = 0
    /\ idle = 0
    /\ obs = [i \in Lanes(cfg.N) |-> NoObs]
    /\ done = [i \in Lanes(cfg.N) |-> NoPulse]
    /\ last = NoCycle
    /\ why = "none"
    /\ reported = FALSE
    /\ bus = [NoBus EXCEPT !.prog = "gob"]

(* the centres green_on_brown may return: one in lane 2 below the activation
   line of 20 %, one on the line *)
GobCentresOf(c) == { <<400, 390>>, <<400, yActGob(c.H)>> }

GobCentreSeqs(c) == UNION { [1 .. n -> GobCentresOf(c)] : n \in 0 .. MaxCentres }

(* where an exception is raised in a pass: nowhere, in green_on_brown, or
   after the lane loop (imshow, the video writer) *)
Raises == {"nowhere", "detection", "after"}

(* one pass of `while True'.  Inputs: what cam.read() returns, the centres
   green_on_brown returns, where an exception is raised and the key.
   `except Exception' beeps and logs [CRITICAL ERROR] STOPPED and hoot
   returns; it does not call stop(). *)
gob_cycle(frame, weedCentres, raises, k) ==
    LET got == frame = "frame"
        threw == got /\ raises = "detection"
        jobs == IF got /\ ~threw
                THEN GobCentreLoop(weedCentres, cfg.W, cfg.H, cfg.N, cfg.delay, now,
                                   cfg.duration)
                ELSE <<>>
        raised == got /\ raises # "nowhere"
        stopping == ~got \/ (~raised /\ k = "esc")
        ob1 == see_jobs(obs, jobs, now)
    IN  /\ WithinBound(ob1)
        /\ last' = [NoCycle EXCEPT !.frame = frame, !.inferred = got, !.threw = threw,
                                   !.centres = IF got /\ ~threw THEN weedCentres ELSE <<>>,
                                   !.jobs = jobs,
                                   !.key = IF got /\ ~raised THEN k ELSE "none",
                                   !.raised = raised, !.stopped = stopping]
        /\ reported' = (reported \/ raised)
        /\ why' = (IF raised THEN "error"
                   ELSE IF ~got THEN "no_frame"
                   ELSE IF k = "esc" THEN "esc" ELSE why)
        /\ timer' = receive_all(timer, jobs, now)
        /\ obs' = ob1
        /\ idle' = IF jobs = <<>> THEN idle ELSE 0
        /\ pc' = IF raised THEN "returned" ELSE IF stopping THEN "stopping" ELSE "loop"
        /\ UNCHANGED <<cfg, boot, job_queue, halt, disable_detection, sample_images, running, relay, done, now,
                       detIn, detOut, gog, loopIn, loopOut, bus>>

GobCycle ==
    /\ pc = "loop"
    /\ bus.prog = "gob"
    /\ \E frame \in {"none", "frame"} :
         \E weedCentres \in (IF frame = "frame" THEN GobCentreSeqs(cfg) ELSE {<<>>}),
            k \in Keys(frame) :
            \E raises \in (IF frame = "none" \/ k # "none" THEN {"nowhere"}
                           ELSE IF weedCentres = <<>> THEN Raises
                           ELSE {"nowhere", "after"}) :
                gob_cycle(frame, weedCentres, raises, k)

(* stop(): controller.running = False; solenoid.all_off(); beeps; cam.stop();
   sys.exit() *)
gob_stop ==
    /\ pc = "stopping"
    /\ bus.prog = "gob"
    /\ running' = FALSE
    /\ relay' = all_off(relay)
    /\ timer' = teardown(timer)
    /\ done' = [i \in DOMAIN done |->
                  IF relay[i] THEN see_off(obs[i], now, "stop") ELSE done[i]]
    /\ obs' = [i \in DOMAIN obs |-> IF relay[i] THEN NoObs ELSE obs[i]]
    /\ pc' = "exited"
    /\ UNCHANGED <<cfg, boot, job_queue, halt, disable_detection, sample_images, now, idle, last, detIn,
                   detOut, gog, loopIn, loopOut, why, reported, bus>>

-----------------------------------------------------------------------------
(* The hand-off of jobs from the lane loop to the scheduler: a bounded queue,
   written by receive and emptied by the scheduler's timing loop *)

NoQueue == [size |-> 0, jobs |-> <<>>, next |-> 0, dropped |-> {}, taken |-> {}]

(* receive hands the job to the queue; a full queue gives up its oldest job
   for the new one *)
put_drop_newest(q, job) ==
    IF Len(q.jobs) < q.size
    THEN [q EXCEPT !.jobs = Append(@, job)]
    ELSE [q EXCEPT !.dropped = @ \cup {job.time_stamp}]

put(q, job) ==
    IF Len(q.jobs) < q.size
    THEN [q EXCEPT !.jobs = Append(@, job)]
    ELSE [q EXCEPT !.jobs = Append(Tail(@), job),
                   !.dropped = @ \cup {Head(q.jobs).time_stamp}]

(* queues of 1 .. MaxQueue jobs *)
InitQueue == \E n \in 1 .. MaxQueue : job_queue = [NoQueue EXCEPT !.size = n]

(* the lane loop submits a job for lane 2: receive(relay=i, delay=delay,
   time_stamp=actuation_time, duration=actuation_duration) returns at once,
   whatever the queue holds.  Time stamps are 0, 1, 2, ... *)
Submit ==
    /\ job_queue.size > 0
    /\ job_queue.next < MaxSubmits
    /\ job_queue' = [put(job_queue, SprayJob(2, cfg.delay, job_queue.next, cfg.duration))
                        EXCEPT !.next = @ + 1]
    /\ UNCHANGED <<cfg, boot, halt, pc, disable_detection, sample_images, running, relay,
                   timer, now, idle, obs, done, last, detIn, detOut, gog, loopIn, loopOut,
                   why, reported, bus>>

(* the scheduler takes the oldest job of the queue *)
Take ==
    /\ job_queue.jobs # <<>>
    /\ job_queue' = [job_queue EXCEPT !.jobs = Tail(@),
                                      !.taken = @ \cup {Head(job_queue.jobs).time_stamp}]
    /\ UNCHANGED <<cfg, boot, halt, pc, disable_detection, sample_images, running, relay,
                   timer, now, idle, obs, done, last, detIn, detOut, gog, loopIn, loopOut,
                   why, reported, bus>>

-----------------------------------------------------------------------------
(* stop() of the four programs, statement by statement *)

StopProgs == {"owl", "cam", "can", "gob"}

NoHalt == [prog |-> "none", steps |-> <<>>, at |-> 1, was_on |-> {}]

(* switch watcher, display and image sampling / recording on or off *)
StopSetups ==
    { u \in Setups : ~u.focus /\ ~u.log_fps /\ ~u.whole /\ ~u.disable }

(* the statements of stop() in the order of the source; camera_first is the
   order in which the camera is released before the relays are switched OFF *)
teardown_steps(prog, c, si) ==
    (IF prog \in {"owl", "gob"} THEN <<"beep", "beep">> ELSE <<>>)
    \o <<"cam_stop">>
    \o (IF prog # "gob" /\ c.enable_controller
        THEN <<"basic_controller_stop", "basic_controller_join">> ELSE <<>>)
    \o (IF prog # "gob" THEN <<"if_sample_images">> ELSE <<>>)
    \o (IF prog # "gob" /\ si = "True" THEN <<"indicators_stop", "image_recorder_stop">>
        ELSE <<>>)
    \o (IF prog = "gob" /\ c.sample THEN <<"writer_release", "recorderButton_off">>
        ELSE <<>>)
    \o (IF prog = "cam" THEN <<"listener_terminate", "listener_join">> ELSE <<>>)
    \o (IF prog = "can" THEN <<"socket_close">> ELSE <<>>)
    \o (IF c.show_display THEN <<"destroyAllWindows">> ELSE <<>>)
    \o <<"exit">>

stop_steps_camera_first(prog, c, si) ==
    <<"cam_stop", "running_false", "all_off">> \o teardown_steps(prog, c, si)

stop_steps(prog, c, si) ==
    <<"running_false", "all_off">> \o teardown_steps(prog, c, si)

(* the relays that may be ON when stop() is called: none, lane 2, all *)
RelaysOn(N) == { {}, {2}, Lanes(N) }

(* stop() is entered: the program runs, self.record of greenonbrown.py is
   cfg.sample, self.sample_images of owl.py may never have been assigned *)
InitHalt ==
    /\ cfg \in ConfigsOf(BusTimings, StopSetups)
    /\ pc = "stopping"
    /\ disable_detection = "False"
    /\ running = TRUE
    /\ timer = [i \in Lanes(cfg.N) |-> IdleTimer]
    /\ now = 0
    /\ idle = 0
    /\ obs = [i \in Lanes(cfg.N) |-> NoObs]
    /\ done = [i \in Lanes(cfg.N) |-> NoPulse]
    /\ last = NoCycle
    /\ why = "none"
    /\ reported = FALSE
    /\ bus = NoBus
    /\ \E p \in StopProgs, on \in RelaysOn(cfg.N) :
         /\ sample_images \in {PyBool(cfg.sample)}
                              \cup (IF p = "owl" /\ ~cfg.enable_controller
                                    THEN {"unset"} ELSE {})
         /\ relay = [i \in Lanes(cfg.N) |-> i \in on]
         /\ halt = [prog |-> p, steps |-> stop_steps(p, cfg, sample_images), at |-> 1,
                    was_on |-> on]

(* how a statement of stop() may end: the assignment of running and all_off
   end; `if self.sample_images' raises on an unassigned attribute; stop() of
   the camera and the joins may block; every other statement may raise;
   sys.exit() ends the process *)
step_ends(step, si) ==
    CASE step \in {"running_false", "all_off", "beep"} -> {"ok"}
      [] step = "if_sample_images" -> IF si = "unset" THEN {"raises"} ELSE {"ok"}
      [] step \in {"cam_stop", "basic_controller_join", "listener_join"}
            -> {"ok", "raises", "blocks"}
      [] step = "exit" -> {"exits"}
      [] OTHER -> {"ok", "raises"}

(* the next statement of stop() is executed *)
StopNext ==
    /\ halt.prog # "none"
    /\ pc = "stopping"
    /\ halt.at <= Len(halt.steps)
    /\ LET step == halt.steps[halt.at]
       IN  /\ running' = IF step = "running_false" THEN FALSE ELSE running
           /\ relay' = IF step = "all_off" THEN all_off(relay) ELSE relay
           /\ \E end \in step_ends(step, sample_images) :
                pc' = CASE end = "ok" -> "stopping"
                        [] end = "raises" -> "crashed"
                        [] end = "blocks" -> "hung"
                        [] OTHER -> "exited"
           /\ halt' = [halt EXCEPT !.at = @ + 1]
    /\ UNCHANGED <<cfg, boot, job_queue, disable_detection, sample_images, timer, now,
                   idle, obs, done, last, detIn, detOut, gog, loopIn, loopOut, why,
                   reported, bus>>

-----------------------------------------------------------------------------
(* Lane-loop harness: one run of the centre loop of owl.py or of
   greenonbrown.py on a frame of W x H pixels with N relays and one centre *)

HarnessHeights == {250, 400}

HarnessCentres(W) ==
    IF W = 600 THEN { <<500, 390>>, <<500, 20>>, <<500, 4>> }
    ELSE (0 .. W) \X {2, 4, 5, 50, 80, 81}

HarnessInputs ==
    UNION { { [prog |-> p, W |-> W, H |-> H, N |-> N, centre |-> c] :
              c \in HarnessCentres(W) } :
            p \in {"owl", "gob"}, W \in (1 .. MaxW) \cup {600}, H \in HarnessHeights,
            N \in 1 .. MaxN }

InitHarness ==
    /\ loopIn \in { h \in HarnessInputs : h.N <= h.W }
    /\ loopOut = [ran |-> FALSE, jobs |-> <<>>]

(* the jobs of the run are handed to the relay controller *)
Handed(jobs) ==
    /\ loopOut' = [ran |-> TRUE, jobs |-> jobs]
    /\ timer' = receive_all(timer, jobs, now)
    /\ obs' = see_jobs(obs, jobs, now)
    /\ UNCHANGED <<cfg, boot, job_queue, halt, pc, disable_detection, sample_images, running, relay, now,
                   idle, done, last, detIn, detOut, gog, loopIn, why, reported, bus>>

RunOwlLoop ==
    /\ loopIn.prog = "owl"
    /\ ~loopOut.ran
    /\ Handed(OwlCentreLoop(<<loopIn.centre>>, loopIn.W, loopIn.H, loopIn.N,
                            cfg.delay, now, cfg.duration))

RunGobLoop ==
    /\ loopIn.prog = "gob"
    /\ ~loopOut.ran
    /\ Handed(GobCentreLoop(<<loopIn.centre>>, loopIn.W, loopIn.H, loopIn.N,
                            cfg.delay, now, cfg.duration))

-----------------------------------------------------------------------------
(* greenonbrown.py: green_on_brown(image, ..., minArea, algorithm).  The
   functions of algorithms.py are named, not computed: the response is the
   name of the function applied to the image, the mask is the response and the
   operations applied to it, and what cv2.findContours finds in the mask is an
   input: a sequence of contours, each with its area and bounding rectangle. *)

(* the selectors green_on_brown tells apart *)
Recognised == {"exg", "exgr", "maxg", "nexg", "exhsv", "hsv", "gndvi"}

(* the selectors a call is made with: the recognised ones and two others *)
Selectors == Recognised \cup {"ndi", ""}

(* hsv() of algorithms.py returns (output, threshedAlready); the specification
   has it return an already-binary mask *)
hsv_threshedAlready == TRUE

(* the if / elif chain on `algorithm': the function applied, threshedAlready
   after it, and whether [WARNING] DEFAULTED TO EXG was printed *)
select_else_exgr(algorithm) ==
    IF algorithm \in Recognised
    THEN [fn |-> IF algorithm = "nexg" THEN "exg_standardised"
                 ELSE IF algorithm = "exhsv" THEN "exg_standardised_hue"
                 ELSE algorithm,
          threshedAlready |-> IF algorithm = "hsv" THEN hsv_threshedAlready ELSE FALSE,
          warned |-> FALSE]
    ELSE [fn |-> "exgr", threshedAlready |-> FALSE, warned |-> TRUE]

select(algorithm) ==
    CASE algorithm = "exg" -> [fn |-> "exg", threshedAlready |-> FALSE, warned |-> FALSE]
      [] algorithm = "exgr" -> [fn |-> "exgr", threshedAlready |-> FALSE, warned |-> FALSE]
      [] algorithm = "maxg" -> [fn |-> "maxg", threshedAlready |-> FALSE, warned |-> FALSE]
      [] algorithm = "nexg" ->
            [fn |-> "exg_standardised", threshedAlready |-> FALSE, warned |-> FALSE]
      [] algorithm = "exhsv" ->
            [fn |-> "exg_standardised_hue", threshedAlready |-> FALSE, warned |-> FALSE]
      [] algorithm = "hsv" ->
            [fn |-> "hsv", threshedAlready |-> hsv_threshedAlready, warned |-> FALSE]
      [] algorithm = "gndvi" -> [fn |-> "gndvi", threshedAlready |-> FALSE, warned |-> FALSE]
      [] OTHER -> [fn |-> "exg", threshedAlready |-> FALSE, warned |-> TRUE]

(* `if not threshedAlready:' the two np.where clamps, adaptiveThreshold and a
   close with iterations=1; `if threshedAlready:' a close with iterations=5 *)
binarise(threshedAlready) ==
    (IF ~threshedAlready THEN <<"clamp", "adaptiveThreshold", "close1">> ELSE <<>>)
    \o (IF threshedAlready THEN <<"close5">> ELSE <<>>)

(* startX, startY, boxW, boxH = cv2.boundingRect(c) *)
boundingRect(c) == c.rect

(* centerX = int(startX + (boxW / 2)); centerY = int(startY + (boxH / 2)) *)
box_centre(box) ==
    << (2 * box[1] + box[3]) \div 2, (2 * box[2] + box[4]) \div 2 >>

(* `for c in cnts: if cv2.contourArea(c) > minArea:' boxes.append(...) and
   weedCenters.append(...), both in the same branch *)
RECURSIVE contour_loop_boxes_unfiltered(_, _)
contour_loop_boxes_unfiltered(cnts, minArea) ==
    IF cnts = <<>> THEN [boxes |-> <<>>, weedCenters |-> <<>>]
    ELSE LET rest == contour_loop_boxes_unfiltered(Tail(cnts), minArea)
             box == boundingRect(Head(cnts))
         IN  [boxes |-> <<box>> \o rest.boxes,
              weedCenters |-> IF Head(cnts).area > minArea
                              THEN <<box_centre(box)>> \o rest.weedCenters
                              ELSE rest.weedCenters]

RECURSIVE contour_loop(_, _)
contour_loop(cnts, minArea) ==
    IF cnts = <<>> THEN [boxes |-> <<>>, weedCenters |-> <<>>]
    ELSE LET rest == contour_loop(Tail(cnts), minArea)
             box == boundingRect(Head(cnts))
         IN  IF Head(cnts).area > minArea
             THEN [boxes |-> <<box>> \o rest.boxes,
                   weedCenters |-> <<box_centre(box)>> \o rest.weedCenters]
             ELSE rest

(* return cnts, boxes, weedCenters, image: cnts is what findContours found *)
green_on_brown(algorithm, minArea, found) ==
    LET sel == select(algorithm)
        kept == contour_loop(found, minArea)
    IN  [ran |-> TRUE, raised |-> FALSE, fn |-> sel.fn, warned |-> sel.warned,
         ops |-> binarise(sel.threshedAlready),
         cnts |-> found, boxes |-> kept.boxes, weedCenters |-> kept.weedCenters]

-----------------------------------------------------------------------------
(* utils/greenongreen.py: GreenOnGreen.inference(image, confidence, filter_id)
   on an image of 600 x 400 pixels.  A detection is a score (per cent), a class
   id and a box (ymin, xmin, ymax, xmax) in tenths of the image. *)

ImageWidth == 600

ImageHeight == 400

(* __init__ assigns neither self.input_vstreams nor self.output_vstreams, and
   no other code of the repository does *)
NewGreenOnGreen == [boxes |-> <<>>, weed_centers |-> <<>>, calls |-> 0, vstreams |-> FALSE]

(* int(xmin * width) and so on; boxW = endX - startX *)
scaled_box(b) ==
    LET startX == (b[2] * ImageWidth) \div 10
        startY == (b[1] * ImageHeight) \div 10
        endX == (b[4] * ImageWidth) \div 10
        endY == (b[3] * ImageHeight) \div 10
    IN  <<startX, startY, endX - startX, endY - startY>>

(* if scores[i] >= confidence and classes[i] == filter_id *)
passes(d, confidence, filter_id) == d.score >= confidence /\ d.class = filter_id

(* `for i in range(num_detections):' self.boxes.append(...) and
   self.weed_centers.append(...), starting from the lists given *)
RECURSIVE detection_loop(_, _, _, _, _)
detection_loop(dets, confidence, filter_id, boxes, weed_centers) ==
    IF dets = <<>> THEN [boxes |-> boxes, weed_centers |-> weed_centers]
    ELSE IF passes(Head(dets), confidence, filter_id)
         THEN LET box == scaled_box(Head(dets).box)
              IN  detection_loop(Tail(dets), confidence, filter_id,
                                 Append(boxes, box), Append(weed_centers, box_centre(box)))
         ELSE detection_loop(Tail(dets), confidence, filter_id, boxes, weed_centers)

(* self.weed_centers = []; self.boxes = [] before the loop *)
reset(lst) == <<>>

(* lines 97-138 of inference, from the output tensors on: a missing tensor
   returns None, [], [], image; otherwise the lists of the object are reset,
   filled and returned *)
process_outputs(self, tensors, dets, confidence, filter_id) ==
    IF ~tensors
    THEN [self |-> self,
          out |-> [ran |-> TRUE, raised |-> FALSE, fn |-> "hailo", warned |-> TRUE,
                   ops |-> <<>>, cnts |-> <<>>, boxes |-> <<>>, weedCenters |-> <<>>]]
    ELSE LET r == detection_loop(dets, confidence, filter_id, reset(self.boxes),
                                 reset(self.weed_centers))
         IN  [self |-> [self EXCEPT !.boxes = r.boxes, !.weed_centers = r.weed_centers],
              out |-> [ran |-> TRUE, raised |-> FALSE, fn |-> "hailo", warned |-> FALSE,
                       ops |-> <<>>, cnts |-> <<>>, boxes |-> r.boxes,
                       weedCenters |-> r.weed_centers]]

(* inference: self.input_vstreams.write(input_data) reads an attribute; when it
   was never assigned the call raises AttributeError before any output is read *)
inference(self, tensors, dets, confidence, filter_id) ==
    IF ~self.vstreams
    THEN [self |-> self,
          out |-> [ran |-> TRUE, raised |-> TRUE, fn |-> "hailo", warned |-> FALSE,
                   ops |-> <<>>, cnts |-> <<>>, boxes |-> <<>>, weedCenters |-> <<>>]]
    ELSE process_outputs(self, tensors, dets, confidence, filter_id)

-----------------------------------------------------------------------------
(* The image a detector is handed and the frame the caller holds *)

(* cv2.rectangle(image, ...) is called once for every box appended
   (green_on_brown) and cv2.rectangle and cv2.putText once for every detection
   kept (inference): the marks left on the image argument *)
marks(out) == out.boxes

(* what the caller hands over: greenonbrown.py calls
   green_on_brown(frame.copy(), ...), owl.py calls
   weed_detector.inference(frame, ...) *)
argument(prog) == IF prog = "gob" THEN "copy" ELSE "frame"

(* the marks on the frame the caller holds after the call: those on the image
   argument when it is the frame itself, none when it is a copy *)
frame_marks(prog, out) == IF argument(prog) = "frame" THEN marks(out) ELSE <<>>

-----------------------------------------------------------------------------
(* Detector harness: calls of green_on_brown, of GreenOnGreen.inference and of
   the output processing of inference taken alone *)

NoCall == [prog |-> "none"]

NoResult ==
    [ran |-> FALSE, raised |-> FALSE, fn |-> "none", warned |-> FALSE, ops |-> <<>>,
     cnts |-> <<>>, boxes |-> <<>>, weedCenters |-> <<>>]

(* what findContours may find: contours of area 0 .. MaxArea + 1 *)
Rects == { <<0, 0, 1, 1>>, <<3, 2, 5, 4>> }

ContoursFound ==
    UNION { [1 .. n -> [area : 0 .. (MaxArea + 1), rect : Rects]] : n \in 0 .. MaxContours }

(* what the output tensors may hold *)
TensorBoxes == { <<1, 1, 3, 4>>, <<0, 5, 5, 10>> }

(* a detection that passes the confidence and the class filter, one below the
   confidence, one of another class *)
DetectionKinds ==
    { [score |-> 50, class |-> 0], [score |-> 49, class |-> 0], [score |-> 50, class |-> 1] }

Detection ==
    { [score |-> k.score, class |-> k.class, box |-> b] :
      k \in DetectionKinds, b \in TensorBoxes }

Detections == UNION { [1 .. n -> Detection] : n \in 0 .. MaxDets }

RunGreenOnBrown ==
    /\ detIn = NoCall
    /\ \E algorithm \in Selectors, minArea \in 0 .. MaxArea, found \in ContoursFound :
         /\ detIn' = [prog |-> "gob", algorithm |-> algorithm, minArea |-> minArea,
                      found |-> found]
         /\ detOut' = green_on_brown(algorithm, minArea, found)
    /\ UNCHANGED <<cfg, boot, job_queue, halt, pc, disable_detection, sample_images, running, relay, timer,
                   now, idle, obs, done, last, gog, loopIn, loopOut, why, reported, bus>>

called(prog, tensors, dets) ==
    [prog |-> prog, tensors |-> tensors, dets |-> dets, confidence |-> 50, filter_id |-> 0]

(* owl.py calls weed_detector.inference(frame, confidence=..., filter_id=...) *)
RunInference ==
    /\ detIn.prog \in {"none", "gog"}
    /\ gog.calls < MaxCalls
    /\ \E tensors \in BOOLEAN, dets \in Detections :
         LET r == inference(gog, tensors, dets, 50, 0)
         IN  /\ detIn' = called("gog", tensors, dets)
             /\ detOut' = r.out
             /\ gog' = [r.self EXCEPT !.calls = @ + 1]
    /\ UNCHANGED <<cfg, boot, job_queue, halt, pc, disable_detection, sample_images, running, relay, timer,
                   now, idle, obs, done, last, loopIn, loopOut, why, reported, bus>>

(* the output processing of inference, run on given output tensors *)
RunProcessOutputs ==
    /\ detIn.prog \in {"none", "gog_outputs"}
    /\ gog.calls < MaxCalls
    /\ \E tensors \in BOOLEAN, dets \in Detections :
         LET r == process_outputs(gog, tensors, dets, 50, 0)
         IN  /\ detIn' = called("gog_outputs", tensors, dets)
             /\ detOut' = r.out
             /\ gog' = [r.self EXCEPT !.calls = @ + 1]
    /\ UNCHANGED <<cfg, boot, job_queue, halt, pc, disable_detection, sample_images, running, relay, timer,
                   now, idle, obs, done, last, loopIn, loopOut, why, reported, bus>>

-----------------------------------------------------------------------------
(* Specifications *)

ParkedHarness ==
    /\ loopIn = [prog |-> "none", W |-> 1, H |-> 1, N |-> 1, centre |-> <<0, 0>>]
    /\ loopOut = [ran |-> FALSE, jobs |-> <<>>]

ParkedDetect ==
    /\ detIn = NoCall
    /\ detOut = NoResult
    /\ gog = NewGreenOnGreen

(* __init__ not followed step by step *)
ParkedStart == boot = NoBoot

ParkedQueue == job_queue = NoQueue

(* stop() not followed statement by statement *)
ParkedHalt == halt = NoHalt

ParkedOwl ==
    /\ cfg = [W |-> loopIn.W, H |-> loopIn.H, N |-> loopIn.N, delay |-> 0,
              duration |-> 3, enable_controller |-> FALSE, show_display |-> FALSE,
              focus |-> FALSE, log_fps |-> FALSE,
              sample |-> FALSE, whole |-> FALSE, disable |-> FALSE]
    /\ pc = "parked"
    /\ disable_detection = "unset"
    /\ sample_images = "unset"
    /\ running = TRUE
    /\ relay = [i \in Lanes(cfg.N) |-> FALSE]
    /\ timer = [i \in Lanes(cfg.N) |-> IdleTimer]
    /\ now = 0
    /\ idle = 0
    /\ obs = [i \in Lanes(cfg.N) |-> NoObs]
    /\ done = [i \in Lanes(cfg.N) |-> NoPulse]
    /\ last = NoCycle
    /\ why = "none"
    /\ reported = FALSE
    /\ bus = NoBus

(* the main cycle of owl.py with the relay controller's timers *)
Init == InitOwl(Timings, FieldSetups) /\ ParkedHarness /\ ParkedDetect /\ ParkedStart /\ ParkedQueue /\ ParkedHalt

Next ==
    \/ HootStart
    \/ Cycle
    \/ Interrupt
    \/ stop
    \/ Tick
    \/ \E i \in DOMAIN timer : FireActivate(i)
    \/ \E i \in DOMAIN timer : FireDeactivate(i)

Spec == Init /\ [][Next]_vars

(* owl.py: the main cycle and the timers, where the cycle may block *)
NextStall == Next \/ Stall

SpecStall == Init /\ [][NextStall]_vars

(* the main cycle of owl.py alone, in every set-up: the orchestrator's line of
   execution without the clock and the timers' firing *)
InitCycle ==
    InitOwl({[delay |-> 2, duration |-> 4]}, Setups) /\ ParkedHarness /\ ParkedDetect /\ ParkedStart /\ ParkedQueue /\ ParkedHalt

NextCycle == HootStart \/ Cycle \/ Interrupt \/ stop

SpecCycle == InitCycle /\ [][NextCycle]_vars

(* the lane loops alone, on every frame width and relay count of the bounds *)
InitLoop == InitHarness /\ ParkedOwl /\ ParkedDetect /\ ParkedStart /\ ParkedQueue /\ ParkedHalt

NextLoop == RunOwlLoop \/ RunGobLoop

SpecLoop == InitLoop /\ [][NextLoop]_vars

(* Owlcambus.py / Owlcanbus.py: the main loop, the listener and the timers.
   The main loop is a running process: a pass of the loop, or stop() once it is
   called, is taken when it stays possible. *)
InitBusLoop == InitBus /\ ParkedHarness /\ ParkedDetect /\ ParkedStart /\ ParkedQueue /\ ParkedHalt

NextBus ==
    \/ BusCycle
    \/ bus_stop
    \/ Listen
    \/ SaveDone
    \/ Tick
    \/ \E i \in DOMAIN timer : FireActivate(i)
    \/ \E i \in DOMAIN timer : FireDeactivate(i)

SpecBus ==
    InitBusLoop /\ [][NextBus]_vars /\ WF_vars(BusCycle) /\ WF_vars(bus_stop)

(* greenonbrown.py: the main loop and the timers *)
InitGobLoop == InitGob /\ ParkedHarness /\ ParkedDetect /\ ParkedStart /\ ParkedQueue /\ ParkedHalt

NextGob ==
    \/ GobCycle
    \/ gob_stop
    \/ Tick
    \/ \E i \in DOMAIN timer : FireActivate(i)
    \/ \E i \in DOMAIN timer : FireDeactivate(i)

SpecGob == InitGobLoop /\ [][NextGob]_vars

(* Owlcambus.py / Owlcanbus.py: __init__ up to the entry of hoot *)
InitStartUp == InitStart /\ ParkedHarness /\ ParkedDetect /\ ParkedQueue /\ ParkedHalt

NextStart ==
    \/ setup_controller
    \/ setup_camera
    \/ setup_relays
    \/ setup_image_sampling
    \/ setup_can_bus
    \/ connect_to_server
    \/ owl_setup_camera
    \/ owl_setup_relay_controller
    \/ owl_setup_video_source
    \/ owl_setup_data_collection

SpecStart == InitStartUp /\ [][NextStart]_vars

(* the job queue between the lane loop and the scheduler *)
InitJobQueue ==
    InitQueue /\ ParkedHarness /\ ParkedOwl /\ ParkedDetect /\ ParkedStart /\ ParkedHalt

NextQueue == Submit \/ Take

SpecQueue == InitJobQueue /\ [][NextQueue]_vars

(* stop() of the four programs *)
InitStop == InitHalt /\ ParkedHarness /\ ParkedDetect /\ ParkedStart /\ ParkedQueue

NextStop == StopNext

SpecStop == InitStop /\ [][NextStop]_vars

(* the detectors, called on their own *)
InitDetect == ParkedHarness /\ ParkedOwl /\ ParkedDetect /\ ParkedStart /\ ParkedQueue /\ ParkedHalt

NextDetect == RunGreenOnBrown \/ RunInference \/ RunProcessOutputs

SpecDetect == InitDetect /\ [][NextDetect]_vars

-----------------------------------------------------------------------------
(* Properties of the lane loops, checked under SpecLoop *)

(* the relays that received a job in the run of the lane loop *)
LanesHit == { loopOut.jobs[k].relay : k \in 1 .. Len(loopOut.jobs) }

(* the run's centre is above the activation line of the program that ran *)
Above ==
    IF loopIn.prog = "owl" THEN loopIn.centre[2] > yActOwl(loopIn.H)
    ELSE loopIn.centre[2] > yActGob(loopIn.H)

(* C5: in owl.py, for every frame width W and relay count N (1 <= N <= W) and
   every x in [0, W), a centre above the activation line with that x makes the
   lane loop call receive for exactly one relay, and a centre with x = W makes
   it call receive for none. *)
C5_OwlExactlyOneRelay ==
    (loopIn.prog = "owl" /\ loopOut.ran /\ Above)
        => /\ loopIn.centre[1] < loopIn.W
              => Len(loopOut.jobs) = 1 /\ LanesHit \subseteq Lanes(loopIn.N)
           /\ loopIn.centre[1] = loopIn.W => loopOut.jobs = <<>>

(* C6: in greenonbrown.py, for every frame width W and nozzle count N
   (1 <= N <= W) and every x in [0, W), a centre above the activation line with
   that x makes the lane loop call receive for exactly one nozzle (no gap, no
   double trigger), and a centre with x = W makes it call receive for none. *)
C6_GobExactlyOneNozzle ==
    (loopIn.prog = "gob" /\ loopOut.ran /\ Above)
        => /\ loopIn.centre[1] < loopIn.W
              => Len(loopOut.jobs) = 1 /\ LanesHit \subseteq Lanes(loopIn.N)
           /\ loopIn.centre[1] = loopIn.W => loopOut.jobs = <<>>

(* C7: in both lane loops the relays that receive a job for a centre above the
   line are exactly the lanes i with i * (W / N) <= x < (i + 1) * (W / N), the
   real-valued partition (written with both sides multiplied by N). *)
C7_RealValuedPartition ==
    (loopOut.ran /\ Above)
        => LanesHit = { i \in Lanes(loopIn.N) :
                          /\ i * loopIn.W <= loopIn.centre[1] * loopIn.N
                          /\ loopIn.centre[1] * loopIn.N < (i + 1) * loopIn.W }

(* C8: in both programs a job is submitted only for a centre whose y is
   strictly greater than the activation line; a centre with y <= the line leads
   to no receive call and leaves every relay and every lane timer as it was. *)
C8_OnlyAboveTheLine ==
    loopOut.ran
        => /\ loopOut.jobs # <<>> => Above
           /\ ~Above => /\ loopOut.jobs = <<>>
                        /\ \A i \in DOMAIN timer : timer[i] = IdleTimer /\ ~relay[i]

(* a run of each program with the centre exactly on its activation line *)
C8_Witness ==
    /\ loopOut.ran
    /\ loopOut.jobs = <<>>
    /\ loopIn.centre[1] < loopIn.W
    /\ \/ loopIn.prog = "owl" /\ loopIn.centre[2] = 4 /\ loopIn.H = 400
       \/ loopIn.prog = "gob" /\ loopIn.centre[2] = 80 /\ loopIn.H = 400

(* C9: owl.py on a 600 x 400 frame with 4 relays: the centre (500, 390) yields
   exactly one job, for relay 3, and the centre (500, 20) yields no job. *)
C9_EndToEndExample ==
    (/\ loopIn.prog = "owl" /\ loopIn.W = 600 /\ loopIn.H = 400 /\ loopIn.N = 4
     /\ loopOut.ran)
        => /\ loopIn.centre = <<500, 390>>
              => Len(loopOut.jobs) = 1 /\ LanesHit = {3}
           /\ loopIn.centre = <<500, 20>> => loopOut.jobs = <<>>

-----------------------------------------------------------------------------
(* Properties of the lane timers driven by the main cycle, checked under Spec *)

(* lane i received a job in this step *)
Received(i) == obs'[i].njobs > obs[i].njobs

(* the deactivation deadline a job submitted at time t asks for *)
Deadline(t) == t + cfg.delay + cfg.duration

C1_KeepsActivation(i) ==
    (timer[i].state # "Idle" /\ Received(i))
        => /\ timer'[i].state = timer[i].state
           /\ timer'[i].activate_at = timer[i].activate_at
           /\ timer'[i].deactivate_at = Max(timer[i].deactivate_at, Deadline(now))

C1_OnePulse(i) ==
    (/\ done[i].by = "timer" /\ done[i].njobs >= 2
     /\ done[i].latest <= done[i].first + cfg.delay)
        => /\ done[i].ons = 1
           /\ done[i].on_at = done[i].first + cfg.delay
           /\ done[i].off_at = Deadline(done[i].latest)

(* C1: a job submitted for a lane whose timer is Pending or Active does not
   reset the activation timer and sets the deactivation deadline to the later
   of the current one and time_stamp + delay + duration; jobs submitted to an
   Idle lane again within the delay window of the first give exactly one ON
   pulse, which ends at the later deadline. *)
C1_Coalescing ==
    /\ [](\A i \in DOMAIN done : C1_OnePulse(i))
    /\ [][\A i \in DOMAIN timer : C1_KeepsActivation(i)]_vars

(* lane 2 ended a pulse by its timer after two jobs, the second submitted
   later than the first and within the first one's delay window *)
C1_Witness ==
    /\ done[2].by = "timer" /\ done[2].njobs = 2 /\ done[2].ons = 1
    /\ done[2].first < done[2].latest
    /\ done[2].latest <= done[2].first + cfg.delay
    /\ done[2].off_at = done[2].latest + cfg.delay + cfg.duration

(* from the first activation on, the relay is ON with a single ON transition *)
C2_OnSinceFirst(i) ==
    (/\ running /\ obs[i].njobs > 0 /\ now >= obs[i].first + cfg.delay
     /\ ~ActivationDue(i))
        => relay[i] /\ obs[i].ons = 1 /\ obs[i].on_at = obs[i].first + cfg.delay

(* a pulse the timer ended went ON once, at the first activation, and OFF at
   the latest deactivation *)
C2_OffAtLatest(i) ==
    done[i].by = "timer"
        => /\ done[i].ons = 1
           /\ done[i].on_at = done[i].first + cfg.delay
           /\ done[i].off_at = Deadline(done[i].latest)

(* a job that found the relay switched OFF after the last job's pulse had a
   window that neither overlaps nor touches that job's window *)
C2_NoOffBetween(i) ==
    (done[i].by = "timer" /\ obs[i].njobs > 0)
        => obs[i].first > done[i].latest + cfg.duration

(* the same, a touching window allowed when the delay is zero *)
C2_NoOffBetweenOverlap(i) ==
    (done[i].by = "timer" /\ obs[i].njobs > 0)
        => \/ obs[i].first > done[i].latest + cfg.duration
           \/ cfg.delay = 0 /\ obs[i].first = done[i].latest + cfg.duration

(* lane 2, jobs at t = 0 and t = 0.15 s, delay 0.1 s, duration 0.2 s: ON from
   0.1 s to 0.45 s (ticks of 50 ms) *)
C2_Example ==
    (/\ cfg.delay = 2 /\ cfg.duration = 4
     /\ done[2].by = "timer" /\ done[2].njobs = 2
     /\ done[2].first = 0 /\ done[2].latest = 3)
        => done[2].ons = 1 /\ done[2].on_at = 2 /\ done[2].off_at = 9

(* C2 as stated: two jobs on one lane whose ON windows overlap or touch (the
   second job's activation time <= the first job's deactivation time) keep the
   relay ON from the first activation to the latest deactivation, with no OFF
   transition in between. *)
C2_OverlapOrTouch ==
    \A i \in DOMAIN timer :
        C2_OnSinceFirst(i) /\ C2_OffAtLatest(i) /\ C2_NoOffBetween(i) /\ C2_Example

(* C2, amended: two jobs on one lane whose ON windows overlap (the second
   job's activation time < the first job's deactivation time), or touch with a
   delay above zero, keep the relay ON from the first activation to the latest
   deactivation, with no OFF transition in between; with a delay of zero a job
   submitted at the very instant of the deactivation may start a new pulse. *)
C2_Overlap ==
    \A i \in DOMAIN timer :
        /\ C2_OnSinceFirst(i) /\ C2_OffAtLatest(i) /\ C2_NoOffBetweenOverlap(i)
        /\ C2_Example

(* the example of C2 has run to its end *)
C2_Witness ==
    /\ cfg.delay = 2 /\ cfg.duration = 4
    /\ done[2] = [first |-> 0, latest |-> 3, njobs |-> 2, ons |-> 1, on_at |-> 2,
                  off_at |-> 9, by |-> "timer"]

(* C3: a relay is never ON later than the deactivation deadline armed for it
   by the latest job it received (that of a superseding job if there was
   one). *)
C3_NeverOnPastDeadline ==
    \A i \in DOMAIN relay :
        relay[i] => obs[i].njobs > 0 /\ now <= Deadline(obs[i].latest)

(* lane 2 is ON at the very instant of a deadline that a second job moved *)
C3_Witness ==
    /\ relay[2] /\ obs[2].njobs = 2 /\ obs[2].first < obs[2].latest
    /\ obs[2].latest > obs[2].first + cfg.delay
    /\ now = obs[2].latest + cfg.delay + cfg.duration

C4_Transition(i) ==
    /\ timer'[i].state # timer[i].state
          => <<timer[i].state, timer'[i].state>>
                \in { <<"Idle", "Pending">>, <<"Pending", "Active">>,
                      <<"Active", "Idle">> }
    /\ (timer[i].state = "Idle" /\ Received(i))
          => timer'[i] = [state |-> "Pending", activate_at |-> now + cfg.delay,
                          deactivate_at |-> now + cfg.delay + cfg.duration]
    /\ (~relay[i] /\ relay'[i])
          <=> (timer[i].state = "Pending" /\ timer'[i].state = "Active")
    /\ (relay[i] /\ ~relay'[i])
          <=> (timer[i].state = "Active" /\ timer'[i].state = "Idle")

(* one deadline pair per lane, armed exactly while the lane is not Idle *)
C4_OnePair(i) ==
    IF timer[i].state = "Idle"
    THEN timer[i].activate_at = NoTime /\ timer[i].deactivate_at = NoTime
    ELSE 0 <= timer[i].activate_at /\ timer[i].activate_at < timer[i].deactivate_at

(* a step of stop() *)
C4_StopStep == pc = "stopping" /\ pc' # "stopping"

(* C4 as stated: lane timers change only Idle -> Pending -> Active -> Idle; a
   job for an Idle lane arms activation at now + delay and deactivation at
   now + delay + duration; the relay goes ON exactly on Pending -> Active and
   OFF exactly on Active -> Idle; at most one deadline pair per lane. *)
C4_StateMachine ==
    /\ [](\A i \in DOMAIN timer : C4_OnePair(i))
    /\ [][\A i \in DOMAIN timer : C4_Transition(i)]_vars

(* C4, amended: the same in every step other than stop(); stop() switches
   every relay OFF and puts every lane timer back to Idle whatever state it
   is in (a Pending lane goes to Idle with no ON, an Active lane is switched
   OFF before its deadline). *)
C4_StateMachineOutsideStop ==
    /\ [](\A i \in DOMAIN timer : C4_OnePair(i))
    /\ [][IF C4_StopStep
          THEN \A i \in DOMAIN timer : timer'[i] = IdleTimer /\ ~relay'[i]
          ELSE \A i \in DOMAIN timer : C4_Transition(i)]_vars

(* lane 2 went Idle -> Pending -> Active and stop() switched it OFF *)
C4_Witness ==
    /\ pc \in {"exited", "crashed"}
    /\ done[2].by = "stop" /\ done[2].ons = 1
    /\ timer[2] = IdleTimer /\ ~relay[2]

-----------------------------------------------------------------------------
(* Property of the main cycle in every set-up, checked under SpecCycle *)

(* C10: in every cycle in which disable_detection is true the detector is not
   invoked and no job is submitted, while the frame is read and still passed
   on to the display (when the display is on) and to the recorder (when a
   sample is due). *)
C10_DetectionDisabled ==
    (last.frame = "frame" /\ last.disabled = "True")
        => /\ ~last.inferred
           /\ last.jobs = <<>>
           /\ cfg.show_display => last.shown = "frame"
           /\ last.due => last.recorded = "plain"

(* C16: stop() always terminates: it never waits without bound for the
   switch-watcher process (or the command listener) to finish, so every
   shutdown reaches process exit. *)
C16_StopTerminates == pc # "hung"

(* C18: whenever cam.read() returns None, with the focus overlay on or off and
   FPS logging on or off, hoot runs the shutdown sequence as for a Stop (it
   calls stop() from the None-frame branch) and nothing is handled or reported
   as an error. *)
C18_NoFrameIsNormalStop ==
    last.frame = "none" => (last.stopped /\ why = "no_frame" /\ ~reported)

(* C19: after KeyboardInterrupt or the Escape key, stop() runs as for a Stop
   command: the scheduler is stopped, every relay is OFF, the process exits
   through sys.exit() (or is still joining the watcher), and no error is
   reported. *)
C19_InterruptionIsStop ==
    (why \in {"esc", "interrupt"} /\ pc \notin {"loop", "stopping"})
        => /\ pc \in {"exited", "hung"}
           /\ ~running
           /\ \A i \in DOMAIN relay : ~relay[i]
           /\ ~reported

(* C20: when the detector raises in a cycle, the error is logged, no job is
   submitted in that cycle, and the loop goes on with the next frame: the
   exception does not shut the system down. *)
C20_DetectionErrorIsSkipped ==
    last.threw => (reported /\ last.jobs = <<>> /\ ~last.stopped /\ pc = "loop")

-----------------------------------------------------------------------------
(* Properties of the command listener, checked under SpecBus *)

(* the listener executes 'boom_flush' / 'stop' in this step *)
FlushStep == Listen /\ on_boom_flush("boom_flush", "boom_flush")

StopStep == Listen /\ (on_stop_cam("stop", "stop") \/ on_stop_can("stop", "stop"))

(* C11: a BoomFlush command leaves every lane's relay ON, whatever state the
   lane's timer is in, and a Stop command leaves every lane's relay OFF,
   whatever was ON before it, flushed lanes included *)
C11_FlushOnStopOff ==
    [][ /\ FlushStep => \A i \in DOMAIN relay : relay'[i]
        /\ (StopStep \/ bus_stop) => \A i \in DOMAIN relay : ~relay'[i] ]_vars

(* C11 happens: lane 1 never had a job, was ON by the flush alone and was
   switched OFF by the Stop command, while lane 2's timer was armed *)
C11_Witness ==
    /\ bus.stop_cmd
    /\ done[1].by = "stop"
    /\ timer[2].state = "Pending"
    /\ \A i \in DOMAIN relay : ~relay[i]

(* C25: a message the listener receives has at most the effect of the one
   command it names: the relays change only for BoomFlush and Stop; the
   running flag, the timers and the error report only for Stop; the pause only
   for Pause and Play; a snapshot is written only for SaveConfig; the main
   loop's position, flags and configuration never.  A message that names no
   command leaves all of them as they were. *)
C25_OneActionPerMessage ==
    [][ Listen =>
          LET m == bus'.msg
          IN  /\ relay' # relay => m \in {"boom_flush", "stop"}
              /\ (running' # running \/ timer' # timer \/ reported' # reported
                     \/ bus'.stop_cmd # bus.stop_cmd) => m = "stop"
              /\ (bus'.flush /\ ~bus.flush) => m = "boom_flush"
              /\ (bus.flush /\ ~bus'.flush) => m \in {"play", "stop"}
              /\ bus'.paused # bus.paused => m \in {"pause", "play"}
              /\ bus'.listener = "saving" => m = "save_config"
              /\ UNCHANGED <<pc, cfg, disable_detection, sample_images>>
              /\ m \notin CAN_COMMANDS
                    => /\ UNCHANGED <<relay, running, timer, reported>>
                       /\ bus' = [bus EXCEPT !.cmds = @ + 1, !.msg = m] ]_vars

(* a message with an unknown identifier was received while a flush was in
   effect and a lane timer was armed: all relays are still ON *)
C25_Witness ==
    /\ bus.msg = "unknown" /\ bus.cmds = 2
    /\ bus.flush /\ \A i \in DOMAIN relay : relay[i]
    /\ timer[2].state # "Idle"

(* C26: while the listener is writing the snapshot of a SaveConfig command it
   can receive the next message *)
C26_SaveNeverBlocks ==
    (bus.listener = "saving" /\ bus.cmds < MaxCmds /\ pc \in {"loop", "stopping"})
        => ENABLED Listen

(* C12: while a flush is in effect (no Stop, no Play, no new cycle since the
   BoomFlush command) every lane's relay is ON *)
C12_FlushHolds == bus.flush => \A i \in DOMAIN relay : relay[i]

(* C13: a relay changes state only in a step of the scheduler's timers *)
C13_OnlySchedulerWrites ==
    [][ relay' # relay =>
          \E i \in DOMAIN timer : FireActivate(i) \/ FireDeactivate(i) ]_vars

(* C14: once a Stop command has run stop() and forced all lanes OFF, no
   activation timer fires: a job Pending at that moment does not switch its
   relay ON afterwards *)
C14_NoActivationAfterStop ==
    [][ bus.stop_cmd => ~(\E i \in DOMAIN timer : FireActivate(i)) ]_vars

(* C15: after the listener received a Stop command the main loop eventually
   leaves its loop: it stops reading frames and submitting jobs *)
C15_StopEndsLoop == bus.stop_cmd ~> (pc # "loop")

(* C17: a cycle that read a frame while the operator's last word was Pause
   ran no detection and submitted no job *)
C17_PausedSkipsDetection ==
    (bus.paused /\ last.frame = "frame") => (~last.inferred /\ last.jobs = <<>>)

-----------------------------------------------------------------------------
(* Properties of the detectors, checked under SpecDetect *)

(* the call of the harness was green_on_brown *)
GobCalled == detIn.prog = "gob"

(* C27: called with a selector outside the recognised set, green_on_brown
   applies exg to the image, binarises and filters as for 'exg', returns what
   the call with 'exg' returns, prints the warning and does not raise *)
C27_UnknownSelectorIsExg ==
    (GobCalled /\ detIn.algorithm \notin Recognised)
        => LET e == green_on_brown("exg", detIn.minArea, detIn.found)
           IN  /\ detOut.fn = "exg"
               /\ detOut.ops = <<"clamp", "adaptiveThreshold", "close1">>
               /\ detOut.ops = e.ops
               /\ detOut.cnts = e.cnts
               /\ detOut.boxes = e.boxes
               /\ detOut.weedCenters = e.weedCenters
               /\ detOut.warned
               /\ ~detOut.raised

(* a call with the selector 'ndi' that kept one of two contours *)
C27_Witness ==
    /\ GobCalled /\ detIn.algorithm = "ndi"
    /\ detOut.ran /\ detOut.warned
    /\ Len(detIn.found) = 2 /\ Len(detOut.boxes) = 1

(* C28: for 'hsv' and 'exhsv' only the 5-iteration close is applied; for every
   other selector the clamp, the adaptive threshold and the 1-iteration close *)
C28_BinarySelectorsSkipThreshold ==
    GobCalled
        => IF detIn.algorithm \in {"hsv", "exhsv"}
           THEN detOut.ops = <<"close5">>
           ELSE detOut.ops = <<"clamp", "adaptiveThreshold", "close1">>

(* C29: no contour of the returned contour sequence has an area below minArea *)
C29_NoSmallContourReturned ==
    GobCalled
        => \A k \in 1 .. Len(detOut.cnts) : detOut.cnts[k].area >= detIn.minArea

(* point c is the centre of box b = (startX, startY, boxW, boxH), truncated *)
CentreOf(c, b) ==
    /\ 2 * c[1] <= 2 * b[1] + b[3] /\ 2 * b[1] + b[3] <= 2 * c[1] + 1
    /\ 2 * c[2] <= 2 * b[2] + b[4] /\ 2 * b[2] + b[4] <= 2 * c[2] + 1

(* the number of contours / detections of this call that pass its filter *)
PassingNow ==
    IF GobCalled
    THEN Cardinality({ k \in 1 .. Len(detIn.found) : detIn.found[k].area > detIn.minArea })
    ELSE IF detIn.tensors
         THEN Cardinality({ k \in 1 .. Len(detIn.dets) :
                              detIn.dets[k].score >= 50 /\ detIn.dets[k].class = 0 })
         ELSE 0

(* C30: in every result a detector returns, boxes and centroids have the same
   length, centroid k is the centre of box k, and there are as many entries as
   contours / detections of this very call passed the filter *)
C30_BoxesAndCentroidsAligned ==
    (detOut.ran /\ ~detOut.raised)
        => /\ Len(detOut.boxes) = Len(detOut.weedCenters)
           /\ \A k \in 1 .. Len(detOut.boxes) :
                 CentreOf(detOut.weedCenters[k], detOut.boxes[k])
           /\ Len(detOut.boxes) = PassingNow

(* green_on_brown dropped the first of two contours and kept the second *)
C30_Witness ==
    /\ GobCalled /\ Len(detIn.found) = 2
    /\ detIn.found[1].area <= detIn.minArea /\ detIn.found[2].area > detIn.minArea
    /\ detOut.boxes = << detIn.found[2].rect >>
    /\ Len(detOut.weedCenters) = 1

-----------------------------------------------------------------------------
(* Properties of the fatal paths *)

(* hoot has returned or the process has exited *)
Ended == pc \in {"returned", "exited", "crashed"}

(* C21: when hoot returns or the process exits, on a fatal path as on any
   other, all relays have been switched OFF *)
C21_AllOffOnFatalPath == Ended => \A i \in DOMAIN relay : ~relay[i]

(* C22: a fatal failure with an error code, a failure of start-up included, has
   been sent with its code on the status channel when the program is gone *)
C22_FatalFailureIsSent ==
    (Ended /\ boot.failed \in ERROR_CODES) => boot.failed \in boot.sent

-----------------------------------------------------------------------------
(* Properties of the timers while the main cycle is blocked *)

(* C23: with the main cycle stalled, a relay is not ON past the deadline of
   the latest job of its lane, and a pulse the timer ended, ended at that
   deadline *)
C23_OffAtDeadlineWhileStalled ==
    pc = "stalled"
        => \A i \in DOMAIN relay :
             /\ relay[i] => now <= Deadline(obs[i].latest)
             /\ done[i].by = "timer" => done[i].off_at = Deadline(done[i].latest)

(* the cycle stalled after a job for lane 2, and the timer has just switched
   the relay of lane 2 OFF *)
C23_Witness ==
    /\ pc = "stalled"
    /\ obs[2].njobs = 0 /\ ~relay[2]
    /\ done[2].by = "timer" /\ done[2].off_at = now
    /\ done[2].off_at = Deadline(done[2].latest)
    /\ done[2].latest < now

-----------------------------------------------------------------------------
(* Properties of the job queue *)

Stamps(jobs) == { jobs[k].time_stamp : k \in DOMAIN jobs }

(* C24: a job can be submitted whatever the queue holds; the queue holds the
   latest jobs submitted, the newest among them, and when it was full it gave
   up the oldest ones: every job dropped is older than every job waiting *)
C24_SubmissionNeverBlocks ==
    /\ (job_queue.size > 0 /\ job_queue.next < MaxSubmits) => ENABLED Submit
    /\ Len(job_queue.jobs) <= job_queue.size
    /\ job_queue.next > 0
         => (job_queue.next - 1) \in Stamps(job_queue.jobs) \cup job_queue.taken
    /\ \A d \in job_queue.dropped, w \in Stamps(job_queue.jobs) : d < w
    /\ Stamps(job_queue.jobs) \cup job_queue.taken \cup job_queue.dropped
         = 0 .. job_queue.next - 1

(* a job was submitted to a full queue of two: the oldest one waiting was
   dropped, the new one waits *)
C24_Witness ==
    /\ job_queue.size = 2 /\ Len(job_queue.jobs) = 2
    /\ job_queue.dropped # {}
    /\ job_queue.jobs[2].time_stamp = job_queue.next - 1

-----------------------------------------------------------------------------
(* Properties of the main cycle of owl.py around the detector, checked under
   SpecCycle *)

(* C31: a cycle whose detector returned no detection submits no job, raises
   and reports no error, and goes on with the next frame unless Escape was
   pressed *)
C31_EmptyDetectionIsNormal ==
    (last.inferred /\ ~last.threw /\ last.centres = <<>>)
        => /\ last.jobs = <<>>
           /\ ~last.raised
           /\ last.stopped => last.key = "esc"

-----------------------------------------------------------------------------
(* Properties of the frame, checked under SpecDetect *)

(* C32: after the detector has run, the frame the caller holds, and hands to
   the image recorder, carries no mark of the detector: its pixels are those
   that were read *)
C32_FrameNotModified ==
    (detOut.ran /\ ~detOut.raised) => frame_marks(detIn.prog, detOut) = <<>>

(* the contours of this call whose area is at least minArea *)
AtLeastMinArea == { k \in 1 .. Len(detIn.found) : detIn.found[k].area >= detIn.minArea }

(* C33: green_on_brown returns one box and one centroid for every contour
   whose area is at least minArea, the area equal to minArea included, and for
   no other contour *)
C33_MinAreaIsKept ==
    (GobCalled /\ detOut.ran)
        => /\ Len(detOut.boxes) = Cardinality(AtLeastMinArea)
           /\ Len(detOut.weedCenters) = Cardinality(AtLeastMinArea)

-----------------------------------------------------------------------------
(* Properties of stop(), checked under SpecStop *)

(* the statements of stop() executed or attempted so far *)
Attempted == { halt.steps[k] : k \in 1 .. halt.at - 1 }

(* C34: in stop() of every program, once the camera release, a join, any
   other teardown statement or the exit has been attempted, the running flag
   is cleared and every relay is OFF, however that statement ended *)
C34_RelaysOffBeforeTeardown ==
    (halt.prog # "none" /\ Attempted \ {"running_false", "all_off", "beep"} # {})
        => (~running /\ \A i \in DOMAIN relay : ~relay[i])

(* stop() was called with relays ON and the release of the camera raised or
   blocked: the relays are OFF *)
C34_Witness ==
    /\ halt.prog # "none" /\ halt.was_on # {}
    /\ pc \in {"crashed", "hung"}
    /\ halt.steps[halt.at - 1] = "cam_stop"
    /\ ~running /\ \A i \in DOMAIN relay : ~relay[i]

-----------------------------------------------------------------------------
(* Property of the shutdown with a command listener, checked under SpecBus *)

(* C35: in Owlcanbus.py, once the listener has run stop() for a Stop command
   (relays OFF, camera released), the main loop reads no further frame and
   does not run stop() a second time *)
C35_ShutdownOnce ==
    (bus.prog = "can" /\ bus.stop_cmd)
        => (last.frame = "-" /\ pc \in {"loop", "stopping"})

-----------------------------------------------------------------------------
(* Properties of the start of owl.py, checked under SpecCycle *)

(* C36: when the main cycle is about to read the control flags both are
   assigned, and when stop() is about to read sample_images it is assigned *)
C36_FlagsAssigned ==
    /\ pc = "loop" => (disable_detection # "unset" /\ sample_images # "unset")
    /\ pc = "stopping" => sample_images # "unset"

-----------------------------------------------------------------------------
(* Property of start-up, checked under SpecStart *)

(* C37: no set-up step and no start-up error handler reads an attribute that
   no earlier step assigned; a camera that cannot be set up is reported with
   its code and stop() runs through to the exit *)
C37_OnlyEarlierCollaborators ==
    /\ boot.missing = {}
    /\ boot.failed = "0x401" => ("0x401" \in boot.sent /\ pc = "exited")

-----------------------------------------------------------------------------
(* Properties of the image sampler and of the detector construction of owl.py,
   checked under SpecCycle *)

(* C38: the image sampler never records boxes or centres left by an earlier
   cycle: what add_frame is given was returned by the inference of the same
   cycle, and with detection disabled add_frame is given boxes=None and
   centres=None *)
C38_SamplerBoxesAreCurrent ==
    /\ last.recorded # "stale"
    /\ last.recorded = "boxes" => (last.inferred /\ ~last.threw /\ last.disabled = "False")
    /\ (last.due /\ last.disabled = "True") => last.recorded = "plain"

(* a frame is recorded with the boxes and centres of its own cycle *)
C38_Witness == last.recorded = "boxes" /\ last.centres # <<>> /\ ~cfg.whole

(* after a construction that raised, the main loop is not reached and no
   frame is read *)
NoCycleWithoutDetector ==
    /\ [][(pc = "start" /\ reported') => pc' \in {"exited", "stopping"}]_vars
    /\ [](why = "ctor" => (pc # "loop" /\ last = NoCycle))

(* C39: the main cycle is never entered without an initialised detector: when
   the construction of the detector raises, hoot exits the process before the
   first frame is read, and no inference is made without a detector *)
C39_ExitsBeforeFirstFrame ==
    /\ NoCycleWithoutDetector
    /\ [](why = "ctor" => pc \in {"stopping", "exited"})

====
